---- MODULE Spec2Model ----
(***************************************************************************)
(* TAML (C implementation): the structural parser (parser.c), the value    *)
(* model (value.c), the serializer (serializer.c), the validator            *)
(* (validator.c) and the JSON reader (converters.c), as operators over     *)
(* texts, and the state machines that apply them:                          *)
(*   SpecText  a text is given; taml_parse / taml_validate run on it;      *)
(*   SpecConv  a raw leaf text is given; convert_value runs on it;         *)
(*   SpecTree  a Value tree is built through the value API, serialized,    *)
(*             parsed back and serialized again;                           *)
(*   SpecParse a text is given; taml_parse runs on it one loop iteration   *)
(*             of parse_lines at a time;                                   *)
(*   SpecJson  a JSON text is given; taml_from_json runs on it.            *)
(* A C string is a sequence of one-character strings; the terminating NUL  *)
(* is the end of the sequence.                                             *)
(***************************************************************************)
EXTENDS Integers, Sequences, FiniteSets, TLC

VARIABLES
    pc,      \* position of the driver: what it has done so far
    text,    \* the text handed to taml_parse / taml_validate / taml_from_json
    opts,    \* taml_parser_options_t of the last taml_parse call
    doc,     \* taml_document_t returned by taml_parse / taml_from_json
    verr,    \* what the last taml_validate call returned and wrote
    leaf,    \* the raw leaf text handed to convert_value
    conv,    \* the taml_value_t convert_value returned
    acc,     \* the container under construction (value API)
    kid,     \* a finished value, ready to be stored into acc
    src,     \* the tree that was serialized
    out,     \* char* returned by the first taml_stringify call
    out2,    \* char* returned by taml_stringify on the re-parsed document
    sopts,   \* taml_serializer_options_t of the first taml_stringify call
    run      \* the parse_lines activations of a taml_parse call in progress

vars == <<pc, text, opts, doc, verr, leaf, conv, acc, kid, src, out, out2, sopts, run>>

-----------------------------------------------------------------------------
(* Bounds of the model *)

\* most lines of a generated text
MaxLines == 3
\* most characters of a generated raw leaf text
MaxLeafLen == 3
\* most nodes (containers and leaves) held in acc and kid together
MaxNodes == 4

\* the largest start depth handed to taml_stringify
MaxIndent == 1

\* most number literals in a generated JSON array
MaxItems == 3

-----------------------------------------------------------------------------
(* Characters and C string helpers *)

TAB == "\t"
NL == "\n"
SP == " "

Digits == <<"0", "1", "2", "3", "4", "5", "6", "7", "8", "9">>

\* <ctype.h> isdigit
isdigit(c) == \E k \in 1..10 : Digits[k] = c

DigitVal(c) == (CHOOSE k \in 1..10 : Digits[k] = c) - 1

\* <ctype.h> isspace in the C locale (form feed and vertical tab never occur
\* in the texts of the model)
isspace(c) == c \in {" ", "\t", "\n", "\r"}

\* strchr(str, c) as a 1-based index, 0 for NULL
RECURSIVE StrChrFrom(_, _, _)
StrChrFrom(str, c, k) ==
    IF k > Len(str) THEN 0
    ELSE IF str[k] = c THEN k
    ELSE StrChrFrom(str, c, k + 1)

\* a plausible slip: the last occurrence instead of the first (strrchr)
strrchr(str, c) ==
    LET At == {k \in 1..Len(str) : str[k] = c}
    IN  IF At = {} THEN 0 ELSE CHOOSE k \in At : \A m \in At : m <= k

strchr(str, c) == StrChrFrom(str, c, 1)

\* the string that starts at 1-based index k of str (pointer arithmetic str + k - 1)
From(str, k) == SubSeq(str, k, Len(str))

RECURSIVE Concat(_)
Concat(ss) == IF ss = <<>> THEN <<>> ELSE Head(ss) \o Concat(Tail(ss))

\* a plausible slip: the indent is not written
RepNone(c, n) == <<>>

\* count copies of character c
Rep(c, n) == [k \in 1..n |-> c]

-----------------------------------------------------------------------------
(* value.c: the value model.  A taml_value_t is a record tagged by "type";  *)
(* an Object holds its taml_pair_t list and an Array its taml_array_item_t  *)
(* list, both from the head of the linked list on.                          *)

\* a NULL taml_value_t pointer
NULLPTR == [type |-> "NULL"]

taml_create_null == [type |-> "TAML_TYPE_NULL"]

taml_create_bool(val) == [type |-> "TAML_TYPE_BOOL", bool_val |-> val]

taml_create_int(num) == [type |-> "TAML_TYPE_INT", int_val |-> num]

\* a double that is a short decimal: (-1)^neg * mant / 10^scale, with no
\* trailing zero in the fraction (mant % 10 # 0 when scale > 0)
taml_create_float(neg, mant, scale) ==
    [type |-> "TAML_TYPE_FLOAT", neg |-> neg, mant |-> mant, scale |-> scale]

taml_create_string(str) == [type |-> "TAML_TYPE_STRING", string_val |-> str]

taml_create_object == [type |-> "TAML_TYPE_OBJECT", pairs |-> <<>>, count |-> 0]

taml_create_array == [type |-> "TAML_TYPE_ARRAY", items |-> <<>>, count |-> 0]

IsContainer(v) == v.type \in {"TAML_TYPE_OBJECT", "TAML_TYPE_ARRAY"}

IsScalar(v) ==
    v.type \in {"TAML_TYPE_NULL", "TAML_TYPE_BOOL", "TAML_TYPE_INT",
                "TAML_TYPE_FLOAT", "TAML_TYPE_STRING"}

\* index of the first pair of the list whose key is key, 0 when there is none
RECURSIVE FindPair(_, _, _)
FindPair(pairs, key, k) ==
    IF k > Len(pairs) THEN 0
    ELSE IF pairs[k].key = key THEN k
    ELSE FindPair(pairs, key, k + 1)

taml_object_get(obj, key) ==
    IF obj.type # "TAML_TYPE_OBJECT" THEN NULLPTR
    ELSE LET k == FindPair(obj.pairs, key, 1)
         IN  IF k = 0 THEN NULLPTR ELSE obj.pairs[k].value

\* a plausible slip: a new pair is linked in at the tail of the list
ObjectSetAtTail(obj, key, value) ==
    IF obj.type # "TAML_TYPE_OBJECT" THEN obj
    ELSE LET k == FindPair(obj.pairs, key, 1)
         IN  IF k # 0
             THEN [obj EXCEPT !.pairs[k].value = value]
             ELSE [obj EXCEPT !.pairs = Append(@, [key |-> key, value |-> value]),
                              !.count = @ + 1]

\* a plausible slip: the list is not searched for the key first
ObjectSetNoSearch(obj, key, value) ==
    IF obj.type # "TAML_TYPE_OBJECT" THEN obj
    ELSE [obj EXCEPT !.pairs = <<[key |-> key, value |-> value]>> \o @,
                     !.count = @ + 1]

\* the object after taml_object_set(obj, key, value): an existing key keeps
\* its place and gets the new value, a new key is linked in at the head
taml_object_set(obj, key, value) ==
    IF obj.type # "TAML_TYPE_OBJECT" THEN obj
    ELSE LET k == FindPair(obj.pairs, key, 1)
         IN  IF k # 0
             THEN [obj EXCEPT !.pairs[k].value = value]
             ELSE [obj EXCEPT !.pairs = <<[key |-> key, value |-> value]>> \o @,
                              !.count = @ + 1]

taml_array_size(arr) ==
    IF arr.type # "TAML_TYPE_ARRAY" THEN 0 ELSE arr.count

\* index is the C index, from 0
taml_array_get(arr, index) ==
    IF arr.type # "TAML_TYPE_ARRAY" THEN NULLPTR
    ELSE IF index + 1 <= Len(arr.items) THEN arr.items[index + 1] ELSE NULLPTR

\* a plausible slip: the new item is linked in at the head
ArrayPrepend(arr, value) ==
    IF arr.type # "TAML_TYPE_ARRAY" THEN arr
    ELSE [arr EXCEPT !.items = <<value>> \o @, !.count = @ + 1]

\* a plausible slip: the item is linked in but count is not advanced
ArrayAppendNoCount(arr, value) ==
    IF arr.type # "TAML_TYPE_ARRAY" THEN arr
    ELSE [arr EXCEPT !.items = Append(@, value)]

\* the array after taml_array_append(arr, value)
taml_array_append(arr, value) ==
    IF arr.type # "TAML_TYPE_ARRAY" THEN arr
    ELSE [arr EXCEPT !.items = Append(@, value), !.count = @ + 1]

-----------------------------------------------------------------------------
(* parser.c: scalar coercion *)

NULL_VALUE == <<"~">>

EMPTY_STRING == <<"\"", "\"">>

StrTrue == <<"t", "r", "u", "e">>

StrFalse == <<"f", "a", "l", "s", "e">>

\* the while loop of is_numeric from index k on: [ok, has_dot, has_digit];
\* ok is FALSE when the loop returns false (a second dot, another character)
RECURSIVE NumericLoop(_, _, _, _)
NumericLoop(str, k, has_dot, has_digit) ==
    IF k > Len(str) THEN [ok |-> TRUE, has_dot |-> has_dot, has_digit |-> has_digit]
    ELSE IF isdigit(str[k]) THEN NumericLoop(str, k + 1, has_dot, TRUE)
    ELSE IF str[k] = "."
         THEN IF has_dot
              THEN [ok |-> FALSE, has_dot |-> has_dot, has_digit |-> has_digit]
              ELSE NumericLoop(str, k + 1, TRUE, has_digit)
    ELSE [ok |-> FALSE, has_dot |-> has_dot, has_digit |-> has_digit]

\* a plausible slip: the result is not tied to has_digit
IsNumericNoDigitCheck(str) ==
    IF str = <<>> THEN FALSE
    ELSE LET first == IF str[1] \in {"+", "-"} THEN 2 ELSE 1
         IN  NumericLoop(str, first, FALSE, FALSE).ok

is_numeric(str) ==
    IF str = <<>> THEN FALSE
    ELSE LET first == IF str[1] \in {"+", "-"} THEN 2 ELSE 1
             r == NumericLoop(str, first, FALSE, FALSE)
         IN  r.ok /\ r.has_digit

is_boolean(str) == str = StrTrue \/ str = StrFalse

RECURSIVE count_leading_tabs_from(_, _)
count_leading_tabs_from(line, count) ==
    IF count + 1 <= Len(line) /\ line[count + 1] = TAB
    THEN count_leading_tabs_from(line, count + 1)
    ELSE count

count_leading_tabs(line) == count_leading_tabs_from(line, 0)

has_tab_in_content(str) == strchr(str, TAB) # 0

\* the index at which the scan of trim_trailing_whitespace stops: it walks
\* back from the last character while end > str, so the first character stays
RECURSIVE TrimEnd(_, _)
TrimEnd(str, end) ==
    IF end > 1 /\ isspace(str[end]) THEN TrimEnd(str, end - 1) ELSE end

\* a plausible slip: nothing is trimmed
TrimNothing(str) == str

trim_trailing_whitespace(str) ==
    IF str = <<>> THEN str ELSE SubSeq(str, 1, TrimEnd(str, Len(str)))

\* the number the decimal digits str[k..] up to the first non-digit spell,
\* continued from acc; [val, next]
RECURSIVE DigitRun(_, _, _)
DigitRun(str, k, val) ==
    IF k <= Len(str) /\ isdigit(str[k])
    THEN DigitRun(str, k + 1, 10 * val + DigitVal(str[k]))
    ELSE [val |-> val, next |-> k]

\* <stdlib.h> atoll on a text is_numeric accepted (no leading white space);
\* the texts of the model are far below the 64-bit range
atoll(str) ==
    LET neg == str # <<>> /\ str[1] = "-"
        first == IF str # <<>> /\ str[1] \in {"+", "-"} THEN 2 ELSE 1
        n == DigitRun(str, first, 0).val
    IN  IF neg THEN 0 - n ELSE n

\* strip the trailing zeros of a decimal fraction
RECURSIVE NormDec(_, _, _)
NormDec(neg, mant, scale) ==
    IF scale > 0 /\ mant % 10 = 0 THEN NormDec(neg, mant \div 10, scale - 1)
    ELSE [neg |-> neg, mant |-> mant, scale |-> scale]

\* <stdlib.h> atof on a text is_numeric accepted: sign, digits, at most one
\* point; the short decimals of the model are read exactly
atof(str) ==
    LET neg == str # <<>> /\ str[1] = "-"
        first == IF str # <<>> /\ str[1] \in {"+", "-"} THEN 2 ELSE 1
        ip == DigitRun(str, first, 0)
        dot == ip.next <= Len(str) /\ str[ip.next] = "."
        fp == IF dot THEN DigitRun(str, ip.next + 1, ip.val) ELSE ip
        scale == IF dot THEN fp.next - (ip.next + 1) ELSE 0
    IN  NormDec(neg, fp.val, scale)

\* a plausible slip: the type_conversion flag is not consulted
ConvertIgnoringFlag(str, type_conversion) ==
    IF str = NULL_VALUE THEN taml_create_null
    ELSE IF str = EMPTY_STRING THEN taml_create_string(<<>>)
    ELSE IF is_boolean(str) THEN taml_create_bool(str = StrTrue)
    ELSE IF is_numeric(str)
         THEN IF strchr(str, ".") # 0
              THEN LET f == atof(str) IN taml_create_float(f.neg, f.mant, f.scale)
              ELSE taml_create_int(atoll(str))
    ELSE taml_create_string(str)

convert_value(str, type_conversion) ==
    IF str = NULL_VALUE THEN taml_create_null
    ELSE IF str = EMPTY_STRING THEN taml_create_string(<<>>)
    ELSE IF type_conversion /\ is_boolean(str) THEN taml_create_bool(str = StrTrue)
    ELSE IF type_conversion /\ is_numeric(str)
         THEN IF strchr(str, ".") # 0
              THEN LET f == atof(str) IN taml_create_float(f.neg, f.mant, f.scale)
              ELSE taml_create_int(atoll(str))
    ELSE taml_create_string(str)

-----------------------------------------------------------------------------
(* parser.c: parse_lines.  lines is the array of kept lines; start, end, i, *)
(* j are C indices (line i is lines[i + 1]).  parser_state_t is the record  *)
(* [strict, type_conversion, error_msg, error_line]; error_msg is the       *)
(* format string and its %d argument ([fmt |-> "", arg |-> 0] for the empty *)
(* buffer).  Each operator returns the values its loop leaves behind.       *)
(* parse_lines writes into the lines it builds from (it cuts a line at its  *)
(* first tab and trims it in place); a line is written only when the band   *)
(* that owns it builds from it, its leading tabs stay, and no scan reads a  *)
(* line after that, so the operators of this section, which compute the     *)
(* values returned, read the lines as they were at the call.  The steps of  *)
(* SpecParse record the writes in run.lines.                                *)

MsgNone == [fmt |-> "", arg |-> 0]

MsgIndent(n) == [fmt |-> "Invalid indentation level at line %d", arg |-> n]

MsgTabInKey(n) == [fmt |-> "Key contains invalid tab character at line %d", arg |-> n]

LineEmpty(lines, i) == lines[i + 1] = <<>>

\* a plausible slip: any deeper line counts as a child
RECURSIVE FindChildAnyDeeper(_, _, _, _)
FindChildAnyDeeper(lines, j, end, indent) ==
    IF j >= end THEN -1
    ELSE IF LineEmpty(lines, j) THEN FindChildAnyDeeper(lines, j + 1, end, indent)
    ELSE IF count_leading_tabs(lines[j + 1]) <= indent THEN -1
    ELSE j

\* the inner while loop "does line i have children": the index j of the
\* first line at depth indent + 1 met before a line at depth <= indent,
\* or -1 when the loop ends with no such line
RECURSIVE FindChild(_, _, _, _)
FindChild(lines, j, end, indent) ==
    IF j >= end THEN -1
    ELSE IF LineEmpty(lines, j) THEN FindChild(lines, j + 1, end, indent)
    ELSE LET child_indent == count_leading_tabs(lines[j + 1])
         IN  IF child_indent <= indent THEN -1
             ELSE IF child_indent = indent + 1 THEN j
             ELSE FindChild(lines, j + 1, end, indent)

\* a plausible slip: the loop stops at depth <= indent + 1, at the first
\* child instead of after the last
RECURSIVE FindChildEndAtChild(_, _, _, _)
FindChildEndAtChild(lines, child_end, end, indent) ==
    IF child_end >= end THEN end
    ELSE IF LineEmpty(lines, child_end)
         THEN FindChildEndAtChild(lines, child_end + 1, end, indent)
    ELSE IF count_leading_tabs(lines[child_end + 1]) <= indent + 1 THEN child_end
    ELSE FindChildEndAtChild(lines, child_end + 1, end, indent)

\* the "find end of children" loop: the first index from child_end on whose
\* line is at depth <= indent, or end
RECURSIVE FindChildEnd(_, _, _, _)
FindChildEnd(lines, child_end, end, indent) ==
    IF child_end >= end THEN end
    ELSE IF LineEmpty(lines, child_end)
         THEN FindChildEnd(lines, child_end + 1, end, indent)
    ELSE IF count_leading_tabs(lines[child_end + 1]) <= indent THEN child_end
    ELSE FindChildEnd(lines, child_end + 1, end, indent)

\* a plausible slip: the diagnostic is recorded without testing strict
RECURSIVE ScanBandAlwaysRecords(_, _, _, _, _)
ScanBandAlwaysRecords(lines, i, end, parent_indent, state) ==
    IF i >= end THEN [is_array |-> TRUE, state |-> state]
    ELSE IF LineEmpty(lines, i)
         THEN ScanBandAlwaysRecords(lines, i + 1, end, parent_indent, state)
    ELSE LET line == lines[i + 1]
             indent == count_leading_tabs(line)
             content == From(line, indent + 1)
         IN  IF indent <= parent_indent THEN [is_array |-> TRUE, state |-> state]
             ELSE IF indent # parent_indent + 1
                  THEN ScanBandAlwaysRecords(lines, i + 1, end, parent_indent,
                                [state EXCEPT !.error_msg = MsgIndent(i + 1),
                                              !.error_line = i + 1])
             ELSE IF strchr(content, TAB) # 0
                  THEN [is_array |-> FALSE, state |-> state]
             ELSE IF FindChild(lines, i + 1, end, indent) # -1
                  THEN [is_array |-> FALSE, state |-> state]
             ELSE ScanBandAlwaysRecords(lines, i + 1, end, parent_indent, state)

\* a plausible slip: in strict mode the scan ends at the first line with a
\* wrong depth (break for continue)
RECURSIVE ScanBandStrictStops(_, _, _, _, _)
ScanBandStrictStops(lines, i, end, parent_indent, state) ==
    IF i >= end THEN [is_array |-> TRUE, state |-> state]
    ELSE IF LineEmpty(lines, i)
         THEN ScanBandStrictStops(lines, i + 1, end, parent_indent, state)
    ELSE LET line == lines[i + 1]
             indent == count_leading_tabs(line)
             content == From(line, indent + 1)
         IN  IF indent <= parent_indent THEN [is_array |-> TRUE, state |-> state]
             ELSE IF indent # parent_indent + 1
                  THEN IF state.strict
                       THEN [is_array |-> TRUE,
                             state |-> [state EXCEPT !.error_msg = MsgIndent(i + 1),
                                                     !.error_line = i + 1]]
                       ELSE ScanBandStrictStops(lines, i + 1, end, parent_indent, state)
             ELSE IF strchr(content, TAB) # 0
                  THEN [is_array |-> FALSE, state |-> state]
             ELSE IF FindChild(lines, i + 1, end, indent) # -1
                  THEN [is_array |-> FALSE, state |-> state]
             ELSE ScanBandStrictStops(lines, i + 1, end, parent_indent, state)

\* the first loop of parse_lines (array or object?): [is_array, state]
RECURSIVE ScanBand(_, _, _, _, _)
ScanBand(lines, i, end, parent_indent, state) ==
    IF i >= end THEN [is_array |-> TRUE, state |-> state]
    ELSE IF LineEmpty(lines, i) THEN ScanBand(lines, i + 1, end, parent_indent, state)
    ELSE LET line == lines[i + 1]
             indent == count_leading_tabs(line)
             content == From(line, indent + 1)
         IN  IF indent <= parent_indent THEN [is_array |-> TRUE, state |-> state]
             ELSE IF indent # parent_indent + 1
                  THEN ScanBand(lines, i + 1, end, parent_indent,
                                IF state.strict
                                THEN [state EXCEPT !.error_msg = MsgIndent(i + 1),
                                                   !.error_line = i + 1]
                                ELSE state)
             ELSE IF strchr(content, TAB) # 0
                  THEN [is_array |-> FALSE, state |-> state]
             ELSE IF FindChild(lines, i + 1, end, indent) # -1
                  THEN [is_array |-> FALSE, state |-> state]
             ELSE ScanBand(lines, i + 1, end, parent_indent, state)

RECURSIVE parse_lines(_, _, _, _, _)
RECURSIVE BuildArray(_, _, _, _, _, _)
RECURSIVE BuildObject(_, _, _, _, _, _)

\* the while loop of the is_array branch, from line i on with the array
\* built so far: [result, state]
BuildArray(lines, i, end, parent_indent, state, result) ==
    IF i >= end THEN [result |-> result, state |-> state]
    ELSE IF LineEmpty(lines, i)
         THEN BuildArray(lines, i + 1, end, parent_indent, state, result)
    ELSE LET line == lines[i + 1]
             indent == count_leading_tabs(line)
             content == trim_trailing_whitespace(From(line, indent + 1))
             j == FindChild(lines, i + 1, end, indent)
         IN  IF indent <= parent_indent THEN [result |-> result, state |-> state]
             ELSE IF indent # parent_indent + 1
                  THEN BuildArray(lines, i + 1, end, parent_indent, state, result)
             ELSE IF j # -1
                  THEN LET child_end == FindChildEnd(lines, j, end, indent)
                           child == parse_lines(lines, j, child_end, indent, state)
                       IN  BuildArray(lines, child_end, end, parent_indent, child.state,
                                      IF child.result # NULLPTR
                                      THEN taml_array_append(result, child.result)
                                      ELSE result)
             ELSE BuildArray(lines, i + 1, end, parent_indent, state,
                             taml_array_append(result,
                                 convert_value(content, state.type_conversion)))

\* the while loop of the object branch, from line i on with the object
\* built so far: [result, state]
BuildObject(lines, i, end, parent_indent, state, result) ==
    IF i >= end THEN [result |-> result, state |-> state]
    ELSE IF LineEmpty(lines, i)
         THEN BuildObject(lines, i + 1, end, parent_indent, state, result)
    ELSE LET line == lines[i + 1]
             indent == count_leading_tabs(line)
             content == From(line, indent + 1)
             tab_pos == strchr(content, TAB)
         IN  IF indent <= parent_indent THEN [result |-> result, state |-> state]
             ELSE IF indent # parent_indent + 1
                  THEN BuildObject(lines, i + 1, end, parent_indent, state, result)
             ELSE IF tab_pos # 0
                  THEN LET after == From(content, tab_pos + 1)
                           key == trim_trailing_whitespace(SubSeq(content, 1, tab_pos - 1))
                           value_str == trim_trailing_whitespace(
                                            From(after, count_leading_tabs(after) + 1))
                       IN  IF state.strict /\ has_tab_in_content(key)
                           THEN BuildObject(lines, i + 1, end, parent_indent,
                                            [state EXCEPT !.error_msg = MsgTabInKey(i + 1),
                                                          !.error_line = i + 1],
                                            result)
                           ELSE BuildObject(lines, i + 1, end, parent_indent, state,
                                    taml_object_set(result, key,
                                        convert_value(value_str, state.type_conversion)))
             ELSE LET key == trim_trailing_whitespace(content)
                      child_end == FindChildEnd(lines, i + 1, end, indent)
                      child == parse_lines(lines, i + 1, child_end, indent, state)
                  IN  BuildObject(lines, child_end, end, parent_indent, child.state,
                                  IF child.result # NULLPTR
                                  THEN taml_object_set(result, key, child.result)
                                  ELSE result)

parse_lines(lines, start, end, parent_indent, state) ==
    IF start >= end THEN [result |-> NULLPTR, state |-> state]
    ELSE LET scan == ScanBand(lines, start, end, parent_indent, state)
         IN  IF scan.is_array
             THEN BuildArray(lines, start, end, parent_indent, scan.state,
                             taml_create_array)
             ELSE BuildObject(lines, start, end, parent_indent, scan.state,
                              taml_create_object)

-----------------------------------------------------------------------------
(* parser.c: taml_parse *)

\* <string.h> strtok(text, "\n") called to exhaustion: the maximal runs of
\* characters other than the newline, in order; an empty run is no token
RECURSIVE StrtokFrom(_, _, _)
StrtokFrom(str, k, cur) ==
    IF k > Len(str) THEN (IF cur = <<>> THEN <<>> ELSE <<cur>>)
    ELSE IF str[k] = NL
         THEN (IF cur = <<>> THEN <<>> ELSE <<cur>>) \o StrtokFrom(str, k + 1, <<>>)
    ELSE StrtokFrom(str, k + 1, Append(cur, str[k]))

strtok_lines(str) == StrtokFrom(str, 1, <<>>)

\* "Skip empty lines and comments": the test that stores a token in lines[]
KeptLine(line) ==
    LET trimmed == From(line, count_leading_tabs(line) + 1)
    IN  trimmed # <<>> /\ trimmed[1] # "#"

RECURSIVE SelectKept(_)
SelectKept(toks) ==
    IF toks = <<>> THEN <<>>
    ELSE IF KeptLine(Head(toks)) THEN <<Head(toks)>> \o SelectKept(Tail(toks))
    ELSE SelectKept(Tail(toks))

\* the lines[] array taml_parse fills (idx is its length)
kept_lines(str) == SelectKept(strtok_lines(str))

\* taml_parser_options_t; a NULL options pointer gives the defaults
DefaultOptions == [strict |-> FALSE, type_conversion |-> TRUE]

\* the taml_document_t taml_parse returns for a non-NULL text;
\* error_message = MsgNone stands for the NULL error_message
taml_parse(str, options) ==
    LET state == [strict |-> options.strict,
                  type_conversion |-> options.type_conversion,
                  error_msg |-> MsgNone, error_line |-> 0]
        lines == kept_lines(str)
        r == parse_lines(lines, 0, Len(lines), -1, state)
    IN  [root |-> r.result,
         error_line |-> r.state.error_line,
         error_message |-> r.state.error_msg]

-----------------------------------------------------------------------------
(* validator.c *)

has_leading_spaces(line) == line # <<>> /\ line[1] = SP

\* the for loop of has_mixed_indent from index k on
RECURSIVE MixedLoop(_, _, _, _)
MixedLoop(line, k, found_space, found_tab) ==
    IF k > Len(line) THEN found_space /\ found_tab
    ELSE IF line[k] = SP THEN MixedLoop(line, k + 1, TRUE, found_tab)
    ELSE IF line[k] = TAB THEN MixedLoop(line, k + 1, found_space, TRUE)
    ELSE found_space /\ found_tab

has_mixed_indent(line) == MixedLoop(line, 1, FALSE, FALSE)

VMsg(fmt, args) == [fmt |-> fmt, args |-> args]

\* what validate_line returns and writes: err is the return value, indent
\* the value left in *indent_level (the caller's 0 when the function
\* returns before it counts the tabs), msg the text written to error_msg
\* (fmt "" when nothing is written)
VLine(err, indent, msg) == [err |-> err, indent |-> indent, msg |-> msg]

validate_line(line, line_num, prev_indent, had_value) ==
    LET trimmed == From(line, count_leading_tabs(line) + 1)
        indent == count_leading_tabs(line)
        content == From(line, indent + 1)
        tab_pos == strchr(content, TAB)
        after == From(content, tab_pos + 1)
        value == From(after, count_leading_tabs(after) + 1)
    IN  IF line = <<>> THEN VLine("TAML_OK", 0, VMsg("", <<>>))
        ELSE IF trimmed # <<>> /\ trimmed[1] = "#"
             THEN VLine("TAML_OK", 0, VMsg("", <<>>))
        ELSE IF has_leading_spaces(line)
             THEN VLine("TAML_ERROR_INVALID_INDENTATION", 0,
                        VMsg("Line %d: Indentation must use tabs, not spaces",
                             <<line_num>>))
        ELSE IF has_mixed_indent(line)
             THEN VLine("TAML_ERROR_MIXED_INDENT", 0,
                        VMsg("Line %d: Mixed spaces and tabs in indentation",
                             <<line_num>>))
        ELSE IF indent > prev_indent + 1
             THEN VLine("TAML_ERROR_INCONSISTENT_INDENT", indent,
                        VMsg("Line %d: Invalid indentation level (expected %d tabs, found %d)",
                             <<line_num, prev_indent + 1, indent>>))
        ELSE IF indent > prev_indent /\ had_value
             THEN VLine("TAML_ERROR_ORPHANED_LINE", indent,
                        VMsg("Line %d: Indented line has no parent", <<line_num>>))
        ELSE IF content = <<>>
             THEN VLine("TAML_ERROR_EMPTY_KEY", indent,
                        VMsg("Line %d: Line has no key", <<line_num>>))
        ELSE IF tab_pos # 0 /\ tab_pos - 1 = 0
             THEN VLine("TAML_ERROR_EMPTY_KEY", indent,
                        VMsg("Line %d: Empty key", <<line_num>>))
        ELSE IF tab_pos # 0 /\ has_tab_in_content(SubSeq(content, 1, tab_pos - 1))
             THEN VLine("TAML_ERROR_INVALID_TAB_IN_KEY", indent,
                        VMsg("Line %d: Key contains invalid tab character",
                             <<line_num>>))
        ELSE IF tab_pos # 0 /\ has_tab_in_content(value)
             THEN VLine("TAML_ERROR_INVALID_TAB_IN_VALUE", indent,
                        VMsg("Line %d: Value contains invalid tab character",
                             <<line_num>>))
        ELSE VLine("TAML_OK", indent, VMsg("", <<>>))

\* the while loop of taml_validate over the tokens toks[k..], with the
\* loop's variables; [result, error_line, error_msg, prev_indent,
\* prev_had_value].  error_line and error_msg are the caller's variables:
\* 0 and the empty text stand for "not written"
RECURSIVE ValidateLoop(_, _, _, _, _)
ValidateLoop(toks, k, line_num, prev_indent, prev_had_value) ==
    IF k > Len(toks)
    THEN [result |-> "TAML_OK", error_line |-> 0, error_msg |-> VMsg("", <<>>),
          prev_indent |-> prev_indent, prev_had_value |-> prev_had_value]
    ELSE LET line == toks[k]
             r == validate_line(line, line_num + 1, prev_indent, prev_had_value)
             rest == From(line, r.indent + 1)
             content == From(rest, count_leading_tabs(rest) + 1)
             carries == content # <<>> /\ content[1] # "#"
         IN  IF r.err # "TAML_OK"
             THEN [result |-> r.err, error_line |-> line_num + 1, error_msg |-> r.msg,
                   prev_indent |-> prev_indent, prev_had_value |-> prev_had_value]
             ELSE ValidateLoop(toks, k + 1, line_num + 1,
                               IF carries THEN r.indent ELSE prev_indent,
                               IF carries THEN strchr(content, TAB) # 0
                                          ELSE prev_had_value)

\* taml_validate(text, error_msg, error_msg_size, &error_line) for a
\* non-NULL text
taml_validate(str) == ValidateLoop(strtok_lines(str), 1, 0, -1, FALSE)

-----------------------------------------------------------------------------
(* serializer.c *)

\* the decimal digits of a natural number, most significant first
RECURSIVE NatDigits(_)
NatDigits(n) ==
    IF n < 10 THEN <<Digits[n + 1]>>
    ELSE Append(NatDigits(n \div 10), Digits[(n % 10) + 1])

\* snprintf(buf, sizeof(buf), "%lld", n)
FormatLLD(n) == IF n < 0 THEN <<"-">> \o NatDigits(0 - n) ELSE NatDigits(n)

RECURSIVE Pow10(_)
Pow10(k) == IF k = 0 THEN 1 ELSE 10 * Pow10(k - 1)

\* mant without its trailing zeros
RECURSIVE StripZeros(_)
StripZeros(mant) ==
    IF mant # 0 /\ mant % 10 = 0 THEN StripZeros(mant \div 10) ELSE mant

\* snprintf(buf, sizeof(buf), "%g", x) for x = (-1)^neg * mant / 10^scale
\* with at most 6 significant digits, where %g prints x exactly: fixed
\* notation when the decimal exponent X of the leading digit has
\* -4 <= X < 6, d.ddde+XX otherwise, trailing zeros removed in both
FormatG(neg, mant, scale) ==
    LET sign == IF neg THEN <<"-">> ELSE <<>>
        all == NatDigits(mant)
        X == Len(all) - 1 - scale
        ip == mant \div Pow10(scale)
        fp == mant % Pow10(scale)
        fdigits == NatDigits(fp)
        sig == NatDigits(StripZeros(mant))
        absX == IF X < 0 THEN 0 - X ELSE X
    IN  IF mant = 0 THEN sign \o <<"0">>
        ELSE IF X >= -4 /\ X < 6
             THEN sign \o NatDigits(ip) \o
                  (IF scale = 0 THEN <<>>
                   ELSE <<".">> \o Rep("0", scale - Len(fdigits)) \o fdigits)
        ELSE sign \o <<Head(sig)>> \o
             (IF Len(sig) > 1 THEN <<".">> \o Tail(sig) ELSE <<>>) \o
             <<"e", IF X < 0 THEN "-" ELSE "+">> \o
             (IF absX < 10 THEN <<"0">> ELSE <<>>) \o NatDigits(absX)

\* a plausible slip: the empty string is written as nothing
ScalarTextNoSentinel(value) ==
    CASE value.type = "TAML_TYPE_NULL" -> <<"~">>
      [] value.type = "TAML_TYPE_BOOL" ->
            IF value.bool_val THEN StrTrue ELSE StrFalse
      [] value.type = "TAML_TYPE_INT" -> FormatLLD(value.int_val)
      [] value.type = "TAML_TYPE_FLOAT" ->
            FormatG(value.neg, value.mant, value.scale)
      [] value.type = "TAML_TYPE_STRING" -> value.string_val

\* the text the scalar cases of serialize_value append (string_val is
\* never NULL in the trees of the model)
ScalarText(value) ==
    CASE value.type = "TAML_TYPE_NULL" -> <<"~">>
      [] value.type = "TAML_TYPE_BOOL" ->
            IF value.bool_val THEN StrTrue ELSE StrFalse
      [] value.type = "TAML_TYPE_INT" -> FormatLLD(value.int_val)
      [] value.type = "TAML_TYPE_FLOAT" ->
            FormatG(value.neg, value.mant, value.scale)
      [] value.type = "TAML_TYPE_STRING" ->
            IF value.string_val = <<>> THEN <<"\"", "\"">> ELSE value.string_val

\* serialize_value(sb, value, indent_level, options): [ok, s], ok the
\* return value and s the text appended to sb
RECURSIVE serialize_value(_, _)
RECURSIVE SerializePairs(_, _, _)
RECURSIVE SerializeItems(_, _, _)

\* the while loop over the pair list from pair k on
SerializePairs(pairs, k, indent_level) ==
    IF k > Len(pairs) THEN <<>>
    ELSE LET pair == pairs[k]
         IN  Rep(TAB, indent_level) \o pair.key \o
             (IF pair.value # NULLPTR
              THEN IF IsContainer(pair.value)
                   THEN <<NL>> \o serialize_value(pair.value, indent_level + 1).s
                   ELSE <<TAB>> \o serialize_value(pair.value, indent_level).s \o <<NL>>
              ELSE <<NL>>) \o
             SerializePairs(pairs, k + 1, indent_level)

\* the while loop over the item list from item k on
SerializeItems(items, k, indent_level) ==
    IF k > Len(items) THEN <<>>
    ELSE LET item == items[k]
         IN  Rep(TAB, indent_level) \o
             (IF item # NULLPTR
              THEN IF IsContainer(item)
                   THEN serialize_value(item, indent_level + 1).s
                   ELSE serialize_value(item, indent_level).s \o <<NL>>
              ELSE <<>>) \o
             SerializeItems(items, k + 1, indent_level)

serialize_value(value, indent_level) ==
    IF value = NULLPTR THEN [ok |-> FALSE, s |-> <<>>]
    ELSE IF IsScalar(value) THEN [ok |-> TRUE, s |-> ScalarText(value)]
    ELSE IF value.type = "TAML_TYPE_OBJECT"
         THEN [ok |-> TRUE, s |-> SerializePairs(value.pairs, 1, indent_level)]
    ELSE [ok |-> TRUE, s |-> SerializeItems(value.items, 1, indent_level)]

\* a char* result: NULL, or the string s
NullStr == [null |-> TRUE, s |-> <<>>]

Str(s) == [null |-> FALSE, s |-> s]

\* taml_stringify(doc, options) for a non-NULL doc; indent_level is
\* options->indent_level (0 for NULL options)
taml_stringify(d, indent_level) ==
    IF d.root = NULLPTR THEN NullStr
    ELSE LET r == serialize_value(d.root, indent_level)
         IN  IF r.ok THEN Str(r.s) ELSE NullStr

\* taml_stringify_value(value, options)
taml_stringify_value(value, indent_level) ==
    IF value = NULLPTR THEN NullStr
    ELSE LET r == serialize_value(value, indent_level)
         IN  IF r.ok THEN Str(r.s) ELSE NullStr

-----------------------------------------------------------------------------
(* converters.c: the JSON reader.  json is the memory the reader walks: the *)
(* JSON text, its terminating NUL, and the bytes that lie behind the        *)
(* terminator.  The string and key loops step over the character after a    *)
(* backslash without testing it, so a text that ends in a backslash inside  *)
(* a string takes the pointer over the terminator and the reader goes on in *)
(* the bytes behind it (an out-of-bounds read: what is read there is not    *)
(* determined by the text).  A const char** is a 1-based index into json.   *)
(* Each operator returns the value built and the index the pointer is left  *)
(* at.                                                                      *)

\* the terminating NUL character
NUL == ""

\* the memory of the C string json_text with the bytes behind lying after
\* its terminator
Memory(json_text, behind) == json_text \o <<NUL>> \o behind

\* the byte at index p; the bytes after the last one of json are NUL
JsonAt(json, p) == IF p <= Len(json) THEN json[p] ELSE NUL

\* the index of the first NUL at or after index p
RECURSIVE CStrEnd(_, _)
CStrEnd(json, p) == IF JsonAt(json, p) = NUL THEN p ELSE CStrEnd(json, p + 1)

\* the C string that starts at index p
CStr(json, p) == SubSeq(json, p, CStrEnd(json, p) - 1)

\* <string.h> strndup(start, len): at most len characters, and none from the
\* first NUL on
strndup(json, start, len) ==
    LET e == CStrEnd(json, start)
    IN  SubSeq(json, start, (IF start + len < e THEN start + len ELSE e) - 1)

RECURSIVE skip_whitespace(_, _)
skip_whitespace(json, p) ==
    IF isspace(JsonAt(json, p)) THEN skip_whitespace(json, p + 1) ELSE p

\* strncmp(*json, lit, strlen(lit)) == 0
JsonStartsWith(json, p, lit) ==
    /\ p + Len(lit) - 1 <= Len(json)
    /\ SubSeq(json, p, p + Len(lit) - 1) = lit

\* the loop that runs to the closing quote of a string or key: a backslash
\* steps over the character after it, the terminating NUL included, and the
\* loop then tests the byte behind it
RECURSIVE JsonStringEnd(_, _)
JsonStringEnd(json, p) ==
    IF JsonAt(json, p) \in {NUL, "\""} THEN p
    ELSE IF json[p] = "\\" THEN JsonStringEnd(json, p + 2)
    ELSE JsonStringEnd(json, p + 1)

\* <stdlib.h> strtod from index p (no leading white space, no exponent, no
\* hexadecimal, infinity or NaN in the texts of the model): the double as a
\* short decimal, and the index after the last character converted; with no
\* digit, nothing is converted and end is p
strtod(json, p) ==
    LET neg == JsonAt(json, p) = "-"
        first == IF JsonAt(json, p) \in {"+", "-"} THEN p + 1 ELSE p
        ip == DigitRun(json, first, 0)
        dot == JsonAt(json, ip.next) = "."
        fp == IF dot THEN DigitRun(json, ip.next + 1, ip.val) ELSE ip
        scale == IF dot THEN fp.next - (ip.next + 1) ELSE 0
    IN  IF (ip.next - first) + scale = 0
        THEN [d |-> [neg |-> FALSE, mant |-> 0, scale |-> 0], end |-> p]
        ELSE [d |-> NormDec(neg, fp.val, scale), end |-> fp.next]

\* (long long)d: the double truncated toward zero
TruncToLongLong(d) ==
    LET q == d.mant \div Pow10(d.scale)
    IN  IF d.neg THEN 0 - q ELSE q

\* "Parse number": after *json = end, the expression *json - (end - *json)
\* is end itself, so strchr looks for the point in the text that follows
\* the number (up to the next NUL)
JsonNumber(json, p) ==
    LET n == strtod(json, p)
    IN  [value |-> IF strchr(CStr(json, n.end), ".") # 0
                   THEN taml_create_float(n.d.neg, n.d.mant, n.d.scale)
                   ELSE taml_create_int(TruncToLongLong(n.d)),
         next |-> n.end]

RECURSIVE json_parse_value(_, _)
RECURSIVE JsonObjectLoop(_, _, _)
RECURSIVE JsonArrayLoop(_, _, _)

\* the while loop of "Parse object" with the closing test after it
JsonObjectLoop(json, p, obj) ==
    IF JsonAt(json, p) \in {NUL, "}"}
    THEN [value |-> obj, next |-> IF JsonAt(json, p) = "}" THEN p + 1 ELSE p]
    ELSE LET q == skip_whitespace(json, p)
             e == JsonStringEnd(json, q + 1)
             key == strndup(json, q + 1, e - (q + 1))
             a == IF JsonAt(json, e) = "\"" THEN e + 1 ELSE e
             b == skip_whitespace(json, a)
             c == IF JsonAt(json, b) = ":" THEN b + 1 ELSE b
             v == json_parse_value(json, c)
             d == skip_whitespace(json, v.next)
         IN  IF JsonAt(json, q) # "\""
             THEN [value |-> obj, next |-> IF JsonAt(json, q) = "}" THEN q + 1 ELSE q]
             ELSE JsonObjectLoop(json,
                                 IF JsonAt(json, d) = "," THEN d + 1 ELSE d,
                                 IF v.value # NULLPTR
                                 THEN taml_object_set(obj, key, v.value) ELSE obj)

\* the while loop of "Parse array" with the closing test after it
JsonArrayLoop(json, p, arr) ==
    IF JsonAt(json, p) \in {NUL, "]"}
    THEN [value |-> arr, next |-> IF JsonAt(json, p) = "]" THEN p + 1 ELSE p]
    ELSE LET v == json_parse_value(json, skip_whitespace(json, p))
             d == skip_whitespace(json, v.next)
         IN  JsonArrayLoop(json,
                           IF JsonAt(json, d) = "," THEN d + 1 ELSE d,
                           IF v.value # NULLPTR
                           THEN taml_array_append(arr, v.value) ELSE arr)

json_parse_value(json, p0) ==
    LET p == skip_whitespace(json, p0)
        c == JsonAt(json, p)
    IN  IF c = NUL THEN [value |-> NULLPTR, next |-> p]
        ELSE IF JsonStartsWith(json, p, <<"n", "u", "l", "l">>)
             THEN [value |-> taml_create_null, next |-> p + 4]
        ELSE IF JsonStartsWith(json, p, StrTrue)
             THEN [value |-> taml_create_bool(TRUE), next |-> p + 4]
        ELSE IF JsonStartsWith(json, p, StrFalse)
             THEN [value |-> taml_create_bool(FALSE), next |-> p + 5]
        ELSE IF c = "\""
             THEN LET e == JsonStringEnd(json, p + 1)
                  IN  [value |-> taml_create_string(strndup(json, p + 1, e - (p + 1))),
                       next |-> IF JsonAt(json, e) = "\"" THEN e + 1 ELSE e]
        ELSE IF isdigit(c) \/ c = "-" THEN JsonNumber(json, p)
        ELSE IF c = "{"
             THEN LET q == skip_whitespace(json, p + 1)
                  IN  IF JsonAt(json, q) = "}"
                      THEN [value |-> taml_create_object, next |-> q + 1]
                      ELSE JsonObjectLoop(json, q, taml_create_object)
        ELSE IF c = "["
             THEN LET q == skip_whitespace(json, p + 1)
                  IN  IF JsonAt(json, q) = "]"
                      THEN [value |-> taml_create_array, next |-> q + 1]
                      ELSE JsonArrayLoop(json, q, taml_create_array)
        ELSE [value |-> NULLPTR, next |-> p]

\* taml_from_json(json_text) for a non-NULL text, with the bytes behind
\* lying after the terminator of json_text: the document, or NULLPTR for a
\* NULL taml_document_t pointer
taml_from_json(json_text, behind) ==
    LET root == json_parse_value(Memory(json_text, behind), 1).value
    IN  IF root = NULLPTR THEN NULLPTR
        ELSE [root |-> root, error_line |-> 0, error_message |-> MsgNone]

\* json_parse_value on json_text tests a byte behind the terminator: the
\* pointer passes the NUL only by the step over the character after a
\* backslash, which happens the same way whatever lies behind
ReadsBehind(json_text) ==
    json_parse_value(Memory(json_text, <<>>), 1).next > Len(json_text) + 1

-----------------------------------------------------------------------------
(* The inputs of the model *)

\* the lines the texts of SpecText are made of: bare keys and leaves,
\* key/value pairs, comments, blank and tab-only lines, space and mixed
\* indentation, stray tabs and trailing white space
LineAlphabet ==
    { <<"a">>,
      <<"a", TAB, "x">>,
      <<"b", TAB, "7">>,
      <<TAB, "b">>,
      <<TAB, "7">>,
      <<TAB, "b", TAB, "x">>,
      <<TAB, "c", TAB, "~">>,
      <<TAB, TAB, "b">>,
      <<TAB, TAB, "c", TAB, "x">>,
      <<>>,
      <<"#", "c">>,
      <<TAB>>,
      <<SP, "a", TAB, "x">>,
      <<TAB, SP, "a">>,
      <<"a", SP, TAB, TAB, "x", SP>>,
      <<"b", TAB, "x", TAB, "y">> }

\* the text whose lines are ls, each ended by a newline
TextOf(ls) == Concat([k \in 1..Len(ls) |-> ls[k] \o <<NL>>])

Texts == { TextOf(ls) : ls \in UNION { [1..n -> LineAlphabet] : n \in 0..MaxLines } }

\* the characters the raw leaf texts of SpecConv are made of
LeafAlphabet == {"+", "-", ".", "0", "7", "~", "\"", "e", SP}

LeafTexts ==
    UNION { [1..n -> LeafAlphabet] : n \in 0..MaxLeafLen }
        \cup {StrTrue, StrFalse, <<"T", "r", "u", "e">>}

\* taml_serializer_options_t; a NULL options pointer gives indent_level 0
DefaultSerializerOptions == [indent_level |-> 0]

\* "no call has returned yet"
NoDoc == [root |-> NULLPTR, error_line |-> -1, error_message |-> MsgNone]

NoVerr == [result |-> "none", error_line |-> 0, error_msg |-> VMsg("", <<>>),
           prev_indent |-> -1, prev_had_value |-> FALSE]

\* no taml_parse call in progress: no lines[] array, no activation of
\* parse_lines, an empty parser_state_t, no line built into a tree, no
\* recursive call made
NoRun == [lines |-> <<>>, stack |-> <<>>,
          state |-> [strict |-> FALSE, type_conversion |-> TRUE,
                     error_msg |-> MsgNone, error_line |-> 0],
          built |-> <<>>, calls |-> 0]

-----------------------------------------------------------------------------
(* SpecText: taml_parse and taml_validate on one text *)

InitText ==
    /\ text \in Texts
    /\ pc = "input"
    /\ opts = DefaultOptions
    /\ doc = NoDoc
    /\ verr = NoVerr
    /\ leaf = <<>>
    /\ conv = NULLPTR
    /\ acc = <<>>
    /\ kid = NULLPTR
    /\ src = NULLPTR
    /\ out = NullStr
    /\ out2 = NullStr
    /\ sopts = DefaultSerializerOptions
    /\ run = NoRun

\* doc = taml_parse(text, &options)
ParseText(strict, type_conversion) ==
    /\ doc = NoDoc
    /\ opts' = [strict |-> strict, type_conversion |-> type_conversion]
    /\ doc' = taml_parse(text, opts')
    /\ pc' = "returned"
    /\ UNCHANGED <<text, verr, leaf, conv, acc, kid, src, out, out2, sopts, run>>

\* verr.result = taml_validate(text, error_msg, size, &error_line)
ValidateText ==
    /\ verr = NoVerr
    /\ verr' = taml_validate(text)
    /\ pc' = "returned"
    /\ UNCHANGED <<text, opts, doc, leaf, conv, acc, kid, src, out, out2, sopts, run>>

NextText ==
    \/ \E strict \in BOOLEAN, type_conversion \in BOOLEAN :
           ParseText(strict, type_conversion)
    \/ ValidateText

SpecText == InitText /\ [][NextText]_vars

-----------------------------------------------------------------------------
(* SpecConv: convert_value on one raw leaf text *)

InitConv ==
    /\ leaf \in LeafTexts
    /\ pc = "input"
    /\ opts = DefaultOptions
    /\ doc = NoDoc
    /\ verr = NoVerr
    /\ text = <<>>
    /\ conv = NULLPTR
    /\ acc = <<>>
    /\ kid = NULLPTR
    /\ src = NULLPTR
    /\ out = NullStr
    /\ out2 = NullStr
    /\ sopts = DefaultSerializerOptions
    /\ run = NoRun

\* conv = convert_value(leaf, type_conversion)
Convert(type_conversion) ==
    /\ pc = "input"
    /\ opts' = [strict |-> FALSE, type_conversion |-> type_conversion]
    /\ conv' = convert_value(leaf, type_conversion)
    /\ pc' = "converted"
    /\ UNCHANGED <<text, doc, verr, leaf, acc, kid, src, out, out2, sopts, run>>

NextConv == \E type_conversion \in BOOLEAN : Convert(type_conversion)

SpecConv == InitConv /\ [][NextConv]_vars

-----------------------------------------------------------------------------
(* SpecTree: a Value tree is built bottom-up through the value API, then    *)
(* serialized, parsed back and serialized again.  acc is the stack of the   *)
(* containers under construction (the innermost last); kid is a finished    *)
(* value that no container owns yet, or NULLPTR.                            *)

\* the scalar values a test program creates
Leaves ==
    { taml_create_null,
      taml_create_bool(TRUE),
      taml_create_int(7),
      taml_create_float(FALSE, 15, 1),
      taml_create_string(<<"x">>),
      taml_create_string(<<>>) }

Keys == { <<"a">>, <<"b">> }

RECURSIVE Nodes(_)
RECURSIVE NodesOfSeq(_)
NodesOfSeq(vs) == IF vs = <<>> THEN 0 ELSE Nodes(Head(vs)) + NodesOfSeq(Tail(vs))

\* the number of taml_value_t in a tree
Nodes(v) ==
    IF v = NULLPTR THEN 0
    ELSE IF v.type = "TAML_TYPE_OBJECT"
         THEN 1 + NodesOfSeq([k \in 1..Len(v.pairs) |-> v.pairs[k].value])
    ELSE IF v.type = "TAML_TYPE_ARRAY" THEN 1 + NodesOfSeq(v.items)
    ELSE 1

Allocated == NodesOfSeq(acc) + Nodes(kid)

Top == acc[Len(acc)]

\* a taml_document_t a caller fills in around a root
DocOf(root) == [root |-> root, error_line |-> 0, error_message |-> MsgNone]

InitTree ==
    /\ pc = "build"
    /\ acc = <<>>
    /\ kid = NULLPTR
    /\ src = NULLPTR
    /\ out = NullStr
    /\ out2 = NullStr
    /\ sopts = DefaultSerializerOptions
    /\ run = NoRun
    /\ text = <<>>
    /\ opts = DefaultOptions
    /\ doc = NoDoc
    /\ verr = NoVerr
    /\ leaf = <<>>
    /\ conv = NULLPTR

\* kid = taml_create_null() / _bool / _int / _float / _string
CreateLeaf(l) ==
    /\ pc = "build"
    /\ kid = NULLPTR
    /\ Allocated < MaxNodes
    /\ kid' = l
    /\ UNCHANGED <<pc, text, opts, doc, verr, leaf, conv, acc, src, out, out2, sopts, run>>

\* a new container is started: taml_create_object()
CreateObject ==
    /\ pc = "build"
    /\ Allocated < MaxNodes
    /\ acc' = Append(acc, taml_create_object)
    /\ UNCHANGED <<pc, text, opts, doc, verr, leaf, conv, kid, src, out, out2, sopts, run>>

\* a new container is started: taml_create_array()
CreateArray ==
    /\ pc = "build"
    /\ Allocated < MaxNodes
    /\ acc' = Append(acc, taml_create_array)
    /\ UNCHANGED <<pc, text, opts, doc, verr, leaf, conv, kid, src, out, out2, sopts, run>>

\* the innermost container is finished and becomes a value to store
Finish ==
    /\ pc = "build"
    /\ kid = NULLPTR
    /\ Len(acc) > 1
    /\ kid' = Top
    /\ acc' = SubSeq(acc, 1, Len(acc) - 1)
    /\ UNCHANGED <<pc, text, opts, doc, verr, leaf, conv, src, out, out2, sopts, run>>

\* taml_object_set(Top, key, kid)
ObjectSet(key) ==
    /\ pc = "build"
    /\ kid # NULLPTR
    /\ acc # <<>>
    /\ Top.type = "TAML_TYPE_OBJECT"
    /\ acc' = [acc EXCEPT ![Len(acc)] = taml_object_set(Top, key, kid)]
    /\ kid' = NULLPTR
    /\ UNCHANGED <<pc, text, opts, doc, verr, leaf, conv, src, out, out2, sopts, run>>

\* taml_array_append(Top, kid)
ArrayAppend ==
    /\ pc = "build"
    /\ kid # NULLPTR
    /\ acc # <<>>
    /\ Top.type = "TAML_TYPE_ARRAY"
    /\ acc' = [acc EXCEPT ![Len(acc)] = taml_array_append(Top, kid)]
    /\ kid' = NULLPTR
    /\ UNCHANGED <<pc, text, opts, doc, verr, leaf, conv, src, out, out2, sopts, run>>

\* out = taml_stringify(&doc, &options) with doc.root the finished tree
\* and options.indent_level = indent_level (0 for options NULL)
Stringify(indent_level) ==
    /\ pc = "build"
    /\ kid = NULLPTR
    /\ Len(acc) = 1
    /\ src' = acc[1]
    /\ sopts' = [indent_level |-> indent_level]
    /\ out' = taml_stringify(DocOf(acc[1]), indent_level)
    /\ pc' = "stringified"
    /\ UNCHANGED <<text, opts, doc, verr, leaf, conv, acc, kid, out2, run>>

\* out = taml_stringify_value(kid, NULL) on a scalar
StringifyValue ==
    /\ pc = "build"
    /\ kid # NULLPTR
    /\ IsScalar(kid)
    /\ acc = <<>>
    /\ src' = kid
    /\ out' = taml_stringify_value(kid, 0)
    /\ pc' = "stringified_value"
    /\ UNCHANGED <<text, opts, doc, verr, leaf, conv, acc, kid, out2, sopts, run>>

\* doc = taml_parse(out, &options) on the text just written
Reparse(type_conversion) ==
    /\ pc = "stringified"
    /\ sopts = DefaultSerializerOptions
    /\ ~out.null
    /\ text' = out.s
    /\ opts' = [strict |-> FALSE, type_conversion |-> type_conversion]
    /\ doc' = taml_parse(out.s, opts')
    /\ pc' = "parsed"
    /\ UNCHANGED <<verr, leaf, conv, acc, kid, src, out, out2, sopts, run>>

\* out2 = taml_stringify(doc, NULL) on the re-parsed document
Restringify ==
    /\ pc = "parsed"
    /\ out2' = taml_stringify(doc, 0)
    /\ pc' = "restringified"
    /\ UNCHANGED <<text, opts, doc, verr, leaf, conv, acc, kid, src, out, sopts, run>>

NextTree ==
    \/ \E l \in Leaves : CreateLeaf(l)
    \/ CreateObject
    \/ CreateArray
    \/ Finish
    \/ \E key \in Keys : ObjectSet(key)
    \/ ArrayAppend
    \/ \E indent_level \in 0..MaxIndent : Stringify(indent_level)
    \/ StringifyValue
    \/ \E type_conversion \in BOOLEAN : Reparse(type_conversion)
    \/ Restringify

SpecTree == InitTree /\ [][NextTree]_vars

-----------------------------------------------------------------------------
(* SpecParse: taml_parse on one text, one loop iteration at a time.  run    *)
(* holds the lines[] array, the parser_state_t, and the stack of the        *)
(* parse_lines activations, the innermost last.  An activation is the       *)
(* record of the function's parameters and locals, with "at" for its        *)
(* position: entry, scan (the array-or-object loop), scan_j (its inner      *)
(* loop), array, array_j (the has-children loop), array_call, object,       *)
(* object_end (the find-children loop), object_call, return.  built lists   *)
(* the indices of the lines whose content has been stored in a tree, in the *)
(* order they were stored; calls counts the recursive calls.                *)

\* the lines the texts of SpecParse are made of: bare lines and key/value
\* lines at depths 0 to 2 (one bare line ends in a space, which the build
\* trims in place)
ParseLineAlphabet ==
    { <<"a">>,
      <<"b", TAB, "7">>,
      <<TAB, "b">>,
      <<TAB, "c", TAB, "x">>,
      <<TAB, TAB, "b", " ">>,
      <<TAB, TAB, "c", TAB, "x">> }

ParseTexts ==
    { TextOf(ls) : ls \in UNION { [1..n -> ParseLineAlphabet] : n \in 0..MaxLines } }

\* the activation parse_lines(lines, start, end, parent_indent, state)
\* starts as
NewFrame(start, end, parent_indent) ==
    [start |-> start, end |-> end, parent_indent |-> parent_indent,
     at |-> "entry", i |-> start, j |-> start, child_end |-> start,
     is_array |-> TRUE, result |-> NULLPTR]

\* the innermost activation
Cur == run.stack[Len(run.stack)]

Running(at) == pc = "parsing" /\ run.stack # <<>> /\ Cur.at = at

\* run with the innermost activation replaced by f
WithCur(f) == [run EXCEPT !.stack[Len(run.stack)] = f]

\* the line lines[i] after trim_trailing_whitespace(line + indent): the
\* content is trimmed where it stands, behind the leading tabs
TrimmedInPlace(line, indent) ==
    SubSeq(line, 1, indent) \o trim_trailing_whitespace(From(line, indent + 1))

\* the line lines[i] after *tab_pos = '\0' and trim_trailing_whitespace(key):
\* the string now ends where the trimmed key ends (the value lies behind the
\* terminator)
CutAtTab(line, indent) ==
    LET content == From(line, indent + 1)
        tab_pos == strchr(content, TAB)
    IN  SubSeq(line, 1, indent)
            \o trim_trailing_whitespace(SubSeq(content, 1, tab_pos - 1))

\* "Create appropriate structure": the end of the array-or-object loop
BuildStart(f) ==
    [f EXCEPT !.at = IF f.is_array THEN "array" ELSE "object",
              !.result = IF f.is_array THEN taml_create_array ELSE taml_create_object,
              !.i = f.start]

InitParse ==
    /\ text \in ParseTexts
    /\ pc = "input"
    /\ opts = DefaultOptions
    /\ doc = NoDoc
    /\ verr = NoVerr
    /\ leaf = <<>>
    /\ conv = NULLPTR
    /\ acc = <<>>
    /\ kid = NULLPTR
    /\ src = NULLPTR
    /\ out = NullStr
    /\ out2 = NullStr
    /\ sopts = DefaultSerializerOptions
    /\ run = NoRun

\* taml_parse(text, &options) up to its call parse_lines(lines, 0, idx, -1,
\* &state)
ParseStart(strict, type_conversion) ==
    /\ pc = "input"
    /\ opts' = [strict |-> strict, type_conversion |-> type_conversion]
    /\ LET lines == kept_lines(text)
       IN  run' = [lines |-> lines,
                   stack |-> <<NewFrame(0, Len(lines), -1)>>,
                   state |-> [strict |-> strict, type_conversion |-> type_conversion,
                              error_msg |-> MsgNone, error_line |-> 0],
                   built |-> <<>>, calls |-> 0]
    /\ pc' = "parsing"
    /\ UNCHANGED <<text, doc, verr, leaf, conv, acc, kid, src, out, out2, sopts>>

\* the first statements of parse_lines
Enter ==
    /\ Running("entry")
    /\ run' = IF Cur.start >= Cur.end
              THEN WithCur([Cur EXCEPT !.at = "return"])
              ELSE WithCur([Cur EXCEPT !.at = "scan", !.i = Cur.start])
    /\ UNCHANGED <<pc, text, opts, doc, verr, leaf, conv, acc, kid, src, out, out2, sopts>>

\* one iteration of the array-or-object loop, up to its inner loop
ScanIter ==
    /\ Running("scan")
    /\ LET f == Cur
           i == f.i
           line == run.lines[i + 1]
           indent == count_leading_tabs(line)
           content == From(line, indent + 1)
       IN  run' =
             IF i >= f.end THEN WithCur(BuildStart(f))
             ELSE IF LineEmpty(run.lines, i) THEN WithCur([f EXCEPT !.i = i + 1])
             ELSE IF indent <= f.parent_indent THEN WithCur(BuildStart(f))
             ELSE IF indent # f.parent_indent + 1
                  THEN [WithCur([f EXCEPT !.i = i + 1]) EXCEPT
                            !.state = IF run.state.strict
                                      THEN [run.state EXCEPT
                                                !.error_msg = MsgIndent(i + 1),
                                                !.error_line = i + 1]
                                      ELSE run.state]
             ELSE IF strchr(content, TAB) # 0
                  THEN WithCur(BuildStart([f EXCEPT !.is_array = FALSE]))
             ELSE WithCur([f EXCEPT !.at = "scan_j", !.j = i + 1])
    /\ UNCHANGED <<pc, text, opts, doc, verr, leaf, conv, acc, kid, src, out, out2, sopts>>

\* a plausible slip: a line with a child does not make the band an Object
ScanChildIterKeepsArray ==
    /\ Running("scan_j")
    /\ LET f == Cur
           j == f.j
           indent == count_leading_tabs(run.lines[f.i + 1])
           child_indent == count_leading_tabs(run.lines[j + 1])
       IN  run' =
             IF j >= f.end THEN WithCur([f EXCEPT !.at = "scan", !.i = f.i + 1])
             ELSE IF LineEmpty(run.lines, j) THEN WithCur([f EXCEPT !.j = j + 1])
             ELSE IF child_indent <= indent + 1
                  THEN WithCur([f EXCEPT !.at = "scan", !.i = f.i + 1])
             ELSE WithCur([f EXCEPT !.j = j + 1])
    /\ UNCHANGED <<pc, text, opts, doc, verr, leaf, conv, acc, kid, src, out, out2, sopts>>

\* one iteration of the inner loop of the array-or-object loop
ScanChildIter ==
    /\ Running("scan_j")
    /\ LET f == Cur
           j == f.j
           indent == count_leading_tabs(run.lines[f.i + 1])
           child_indent == count_leading_tabs(run.lines[j + 1])
       IN  run' =
             IF j >= f.end THEN WithCur([f EXCEPT !.at = "scan", !.i = f.i + 1])
             ELSE IF LineEmpty(run.lines, j) THEN WithCur([f EXCEPT !.j = j + 1])
             ELSE IF child_indent <= indent
                  THEN WithCur([f EXCEPT !.at = "scan", !.i = f.i + 1])
             ELSE IF child_indent = indent + 1
                  THEN WithCur(BuildStart([f EXCEPT !.is_array = FALSE]))
             ELSE WithCur([f EXCEPT !.j = j + 1])
    /\ UNCHANGED <<pc, text, opts, doc, verr, leaf, conv, acc, kid, src, out, out2, sopts>>

\* one iteration of the loop of the array branch, up to its inner loop
ArrayIter ==
    /\ Running("array")
    /\ LET f == Cur
           i == f.i
           indent == count_leading_tabs(run.lines[i + 1])
       IN  run' =
             IF i >= f.end THEN WithCur([f EXCEPT !.at = "return"])
             ELSE IF LineEmpty(run.lines, i) THEN WithCur([f EXCEPT !.i = i + 1])
             ELSE IF indent <= f.parent_indent THEN WithCur([f EXCEPT !.at = "return"])
             ELSE IF indent # f.parent_indent + 1 THEN WithCur([f EXCEPT !.i = i + 1])
             ELSE [WithCur([f EXCEPT !.at = "array_j", !.j = i + 1])
                   EXCEPT !.lines[i + 1] = TrimmedInPlace(@, indent)]
    /\ UNCHANGED <<pc, text, opts, doc, verr, leaf, conv, acc, kid, src, out, out2, sopts>>

\* the array branch once the has-children loop has ended with no child: the
\* item is a leaf
ArrayLeaf(f) ==
    LET line == run.lines[f.i + 1]
        content == trim_trailing_whitespace(From(line, count_leading_tabs(line) + 1))
    IN  [WithCur([f EXCEPT !.result = taml_array_append(@,
                                          convert_value(content, run.state.type_conversion)),
                           !.i = f.i + 1,
                           !.at = "array"])
         EXCEPT !.built = Append(@, f.i)]

\* the array branch with has_children: the find-end-of-children loop and the
\* recursive call parse_lines(lines, j, child_end, indent, state)
ArrayChildren(f, indent) ==
    LET child_end == FindChildEnd(run.lines, f.j, f.end, indent)
    IN  [run EXCEPT !.stack = SubSeq(@, 1, Len(@) - 1)
                              \o << [f EXCEPT !.at = "array_call",
                                              !.child_end = child_end],
                                    NewFrame(f.j, child_end, indent) >>,
                    !.calls = @ + 1]

\* one iteration of the has-children loop of the array branch, and what
\* follows the loop when it ends
ArrayChildIter ==
    /\ Running("array_j")
    /\ LET f == Cur
           j == f.j
           indent == count_leading_tabs(run.lines[f.i + 1])
           child_indent == count_leading_tabs(run.lines[j + 1])
       IN  run' =
             IF j >= f.end THEN ArrayLeaf(f)
             ELSE IF LineEmpty(run.lines, j) THEN WithCur([f EXCEPT !.j = j + 1])
             ELSE IF child_indent <= indent THEN ArrayLeaf(f)
             ELSE IF child_indent = indent + 1 THEN ArrayChildren(f, indent)
             ELSE WithCur([f EXCEPT !.j = j + 1])
    /\ UNCHANGED <<pc, text, opts, doc, verr, leaf, conv, acc, kid, src, out, out2, sopts>>

\* one iteration of the loop of the object branch, up to the find-children
\* loop of a parent key
ObjectIter ==
    /\ Running("object")
    /\ LET f == Cur
           i == f.i
           line == run.lines[i + 1]
           indent == count_leading_tabs(line)
           content == From(line, indent + 1)
           tab_pos == strchr(content, TAB)
           after == From(content, tab_pos + 1)
           key == trim_trailing_whitespace(SubSeq(content, 1, tab_pos - 1))
           value_str == trim_trailing_whitespace(From(after, count_leading_tabs(after) + 1))
       IN  run' =
             IF i >= f.end THEN WithCur([f EXCEPT !.at = "return"])
             ELSE IF LineEmpty(run.lines, i) THEN WithCur([f EXCEPT !.i = i + 1])
             ELSE IF indent <= f.parent_indent THEN WithCur([f EXCEPT !.at = "return"])
             ELSE IF indent # f.parent_indent + 1 THEN WithCur([f EXCEPT !.i = i + 1])
             ELSE IF tab_pos # 0
                  THEN IF run.state.strict /\ has_tab_in_content(key)
                       THEN [WithCur([f EXCEPT !.i = i + 1]) EXCEPT
                                 !.lines[i + 1] = CutAtTab(@, indent),
                                 !.state = [run.state EXCEPT
                                                !.error_msg = MsgTabInKey(i + 1),
                                                !.error_line = i + 1]]
                       ELSE [WithCur([f EXCEPT
                                 !.result = taml_object_set(@, key,
                                     convert_value(value_str, run.state.type_conversion)),
                                 !.i = i + 1])
                             EXCEPT !.lines[i + 1] = CutAtTab(@, indent),
                                    !.built = Append(@, i)]
             ELSE [WithCur([f EXCEPT !.at = "object_end", !.j = i + 1,
                                     !.child_end = i + 1])
                   EXCEPT !.lines[i + 1] = TrimmedInPlace(@, indent)]
    /\ UNCHANGED <<pc, text, opts, doc, verr, leaf, conv, acc, kid, src, out, out2, sopts>>

\* a plausible slip: the find-children loop does not step over a line that
\* is deeper than the parent key
ObjectEndIterNoAdvance ==
    /\ Running("object_end")
    /\ LET f == Cur
           indent == count_leading_tabs(run.lines[f.i + 1])
       IN  run' =
             IF f.child_end >= f.end
                \/ ( ~LineEmpty(run.lines, f.child_end)
                     /\ count_leading_tabs(run.lines[f.child_end + 1]) <= indent )
             THEN [run EXCEPT !.stack = SubSeq(@, 1, Len(@) - 1)
                                  \o << [f EXCEPT !.at = "object_call"],
                                        NewFrame(f.j, f.child_end, indent) >>,
                              !.calls = @ + 1]
             ELSE run
    /\ UNCHANGED <<pc, text, opts, doc, verr, leaf, conv, acc, kid, src, out, out2, sopts>>

\* one iteration of the find-children loop of the object branch; when the
\* loop ends, the recursive call parse_lines(lines, j, child_end, indent,
\* state)
ObjectEndIter ==
    /\ Running("object_end")
    /\ LET f == Cur
           indent == count_leading_tabs(run.lines[f.i + 1])
       IN  run' =
             IF f.child_end >= f.end
                \/ ( ~LineEmpty(run.lines, f.child_end)
                     /\ count_leading_tabs(run.lines[f.child_end + 1]) <= indent )
             THEN [run EXCEPT !.stack = SubSeq(@, 1, Len(@) - 1)
                                  \o << [f EXCEPT !.at = "object_call"],
                                        NewFrame(f.j, f.child_end, indent) >>,
                              !.calls = @ + 1]
             ELSE WithCur([f EXCEPT !.child_end = f.child_end + 1])
    /\ UNCHANGED <<pc, text, opts, doc, verr, leaf, conv, acc, kid, src, out, out2, sopts>>

\* the caller c of a recursive call, resumed with the value the call
\* returned: [frame, built]
Resume(c, child) ==
    IF c.at = "array_call"
    THEN [frame |-> [c EXCEPT !.result = IF child # NULLPTR
                                         THEN taml_array_append(@, child) ELSE @,
                              !.i = c.child_end,
                              !.at = "array"],
          built |-> run.built]
    ELSE LET line == run.lines[c.i + 1]
             key == trim_trailing_whitespace(From(line, count_leading_tabs(line) + 1))
         IN  [frame |-> [c EXCEPT !.result = IF child # NULLPTR
                                             THEN taml_object_set(@, key, child) ELSE @,
                                  !.i = c.child_end,
                                  !.at = "object"],
              built |-> IF child # NULLPTR THEN Append(run.built, c.i) ELSE run.built]

\* parse_lines returns: to the activation that called it, or to taml_parse,
\* which fills the document
Return ==
    /\ Running("return")
    /\ LET n == Len(run.stack)
           child == Cur.result
       IN  IF n = 1
           THEN /\ run' = [run EXCEPT !.stack = <<>>]
                /\ doc' = [root |-> child,
                           error_line |-> run.state.error_line,
                           error_message |-> run.state.error_msg]
                /\ pc' = "returned"
           ELSE /\ run' = [run EXCEPT
                              !.stack = SubSeq(@, 1, n - 2)
                                          \o <<Resume(run.stack[n - 1], child).frame>>,
                              !.built = Resume(run.stack[n - 1], child).built]
                /\ UNCHANGED <<doc, pc>>
    /\ UNCHANGED <<text, opts, verr, leaf, conv, acc, kid, src, out, out2, sopts>>

NextParse ==
    \/ \E strict \in BOOLEAN, type_conversion \in BOOLEAN :
           ParseStart(strict, type_conversion)
    \/ Enter
    \/ ScanIter
    \/ ScanChildIter
    \/ ArrayIter
    \/ ArrayChildIter
    \/ ObjectIter
    \/ ObjectEndIter
    \/ Return

\* taml_parse is one sequential call: a step that can be taken is taken
SpecParse == InitParse /\ [][NextParse]_vars /\ WF_vars(NextParse)

-----------------------------------------------------------------------------
(* SpecJson: taml_from_json on one JSON text *)

\* the number literals of the JSON texts
JsonNumbers ==
    { <<"7">>, <<"-", "7">>, <<"2", ".", "5">>, <<"-", "0", ".", "5">>,
      <<"7", "0">>, <<"7", ".", "0">> }

\* the literals ls separated by sep
RECURSIVE JsonJoin(_, _)
JsonJoin(ls, sep) ==
    IF ls = <<>> THEN <<>>
    ELSE IF Len(ls) = 1 THEN ls[1]
    ELSE ls[1] \o sep \o JsonJoin(Tail(ls), sep)

\* the sequences of one to MaxItems number literals
JsonNumberLists == UNION { [1..n -> JsonNumbers] : n \in 1..MaxItems }

\* [n1, n2, ...]
JsonArrayText(ls) == <<"[">> \o JsonJoin(ls, <<",", " ">>) \o <<"]">>

\* {"a": n1, "b": "s"} for a string s
JsonObjectText(n1, s) ==
    <<"{", "\"", "a", "\"", ":", " ">> \o n1
        \o <<",", " ", "\"", "b", "\"", ":", " ", "\"">> \o s \o <<"\"", "}">>

\* the strings of the JSON texts
JsonStrings == { <<"x">>, <<"x", ".", "y">> }

\* texts that end in a backslash inside a string or a key
JsonCutTexts ==
    { <<"\"", "a", "\\">>, <<"\"", "\\">>, <<"{", "\"", "k", "\\">> }

\* what may lie behind the terminator of the text: NUL bytes, the rest of a
\* string, the rest of an object
BytesBehind ==
    { <<>>,
      <<"b", "c", "\"">>,
      <<"\"", "x">>,
      <<"\"", ":", "1", "}">>,
      <<"\"", ":", "2", ".", "5", "}", NUL, ".">> }

\* the JSON texts of SpecJson: the empty text, a number, a keyword, a
\* string, an array of numbers, an object with a number and a string, and
\* the texts cut short after a backslash
JsonTexts ==
    {<<>>, <<"n", "u", "l", "l">>, StrTrue, StrFalse, <<"[", "]">>, <<"{", "}">>,
     <<"\"", "x", "\"">>}
        \cup JsonCutTexts
        \cup JsonNumbers
        \cup { JsonArrayText(ls) : ls \in JsonNumberLists }
        \cup { JsonObjectText(n, s) : n \in JsonNumbers, s \in JsonStrings }

InitJson ==
    /\ text \in JsonTexts
    /\ pc = "input"
    /\ opts = DefaultOptions
    /\ doc = NoDoc
    /\ verr = NoVerr
    /\ leaf = <<>>
    /\ conv = NULLPTR
    /\ acc = <<>>
    /\ kid = NULLPTR
    /\ src = NULLPTR
    /\ out = NullStr
    /\ out2 = NullStr
    /\ sopts = DefaultSerializerOptions
    /\ run = NoRun

\* doc = taml_from_json(text), with the bytes behind lying after the text
FromJson(behind) ==
    /\ pc = "input"
    /\ doc' = taml_from_json(text, behind)
    /\ pc' = "converted"
    /\ UNCHANGED <<text, opts, verr, leaf, conv, acc, kid, src, out, out2, sopts, run>>

\* taml_from_json(text) reads behind the terminator and the read faults: the
\* call does not return
FromJsonFault ==
    /\ pc = "input"
    /\ ReadsBehind(text)
    /\ pc' = "fault"
    /\ UNCHANGED <<text, opts, doc, verr, leaf, conv, acc, kid, src, out, out2, sopts, run>>

NextJson ==
    \/ \E behind \in BytesBehind : FromJson(behind)
    \/ FromJsonFault

SpecJson == InitJson /\ [][NextJson]_vars

-----------------------------------------------------------------------------
(* Shapes of raw leaf texts, stated on the characters *)

\* s without its optional leading sign
Unsigned(s) == IF s # <<>> /\ s[1] \in {"+", "-"} THEN Tail(s) ELSE s

DotCount(s) == Cardinality({k \in 1..Len(s) : s[k] = "."})

\* [+-]?digit+('.'digit+)? : digits and at most one point, with a digit
\* before the point and a digit after it
DecimalShape(s) ==
    LET u == Unsigned(s)
    IN  /\ u # <<>>
        /\ \A k \in 1..Len(u) : isdigit(u[k]) \/ u[k] = "."
        /\ DotCount(u) <= 1
        /\ isdigit(u[1])
        /\ isdigit(u[Len(u)])

\* an optional sign, then digits and at most one point anywhere among
\* them (also first or last), with at least one digit
LooseDecimalShape(s) ==
    LET u == Unsigned(s)
    IN  /\ \A k \in 1..Len(u) : isdigit(u[k]) \/ u[k] = "."
        /\ DotCount(u) <= 1
        /\ \E k \in 1..Len(u) : isdigit(u[k])

\* neither a sentinel nor true/false
PlainLeaf(s) == s \notin {NULL_VALUE, EMPTY_STRING, StrTrue, StrFalse}

IsNumber(v) == v.type \in {"TAML_TYPE_INT", "TAML_TYPE_FLOAT"}

-----------------------------------------------------------------------------
(* Claims about scalar coercion, under SpecConv *)

\* C4, as stated: with type conversion on, a leaf text other than the
\* sentinels and true/false becomes a number exactly when it matches
\* [+-]?digit+('.'digit+)?, Int without a point and Float with one, and a
\* String otherwise.
C4_AsStated ==
    (pc = "converted" /\ opts.type_conversion /\ PlainLeaf(leaf)) =>
        /\ IsNumber(conv) <=> DecimalShape(leaf)
        /\ IsNumber(conv) =>
              (conv.type = "TAML_TYPE_INT" <=> DotCount(leaf) = 0)
        /\ ~IsNumber(conv) => conv = taml_create_string(leaf)

\* C4, amended: with type conversion on, a leaf text other than the
\* sentinels and true/false becomes a number exactly when it is an optional
\* sign followed by digits and at most one point, holding at least one
\* digit (the point may come first or last: "7.", ".7", "+.7"); it becomes
\* Int without a point and Float with one; every other text becomes the
\* String of the text.
C4_Coercion ==
    (pc = "converted" /\ opts.type_conversion /\ PlainLeaf(leaf)) =>
        /\ IsNumber(conv) <=> LooseDecimalShape(leaf)
        /\ IsNumber(conv) =>
              (conv.type = "TAML_TYPE_INT" <=> DotCount(leaf) = 0)
        /\ ~IsNumber(conv) => conv = taml_create_string(leaf)

\* a text with a point and no digit after it has been coerced to a Float
C4_Witness ==
    /\ pc = "converted"
    /\ opts.type_conversion
    /\ leaf = <<"-", "7", ".">>
    /\ conv.type = "TAML_TYPE_FLOAT"

\* C5: convert_value yields exactly one of Null, Bool, Int, Float, String
\* for every leaf text and either flag; with type conversion off the result
\* is Null for "~" and otherwise the String of the text verbatim (the empty
\* String for the quote-quote sentinel), never Bool, Int or Float.
C5_Total ==
    pc = "converted" =>
        /\ IsScalar(conv)
        /\ ~opts.type_conversion =>
              /\ conv.type \in {"TAML_TYPE_NULL", "TAML_TYPE_STRING"}
              /\ conv.type = "TAML_TYPE_NULL" <=> leaf = <<"~">>
              /\ conv.type = "TAML_TYPE_STRING" =>
                    conv.string_val = (IF leaf = <<"\"", "\"">> THEN <<>> ELSE leaf)

\* with type conversion off, a text that would be a number has been kept
\* as a String
C5_Witness ==
    /\ pc = "converted"
    /\ ~opts.type_conversion
    /\ leaf = <<"7">>
    /\ conv = taml_create_string(<<"7">>)

-----------------------------------------------------------------------------
(* Claims about serializing and parsing back, under SpecTree *)

\* an Object all of whose values are scalars (its keys are drawn from Keys:
\* no tab, no newline; its String leaves are "x" and the empty String)
FlatObject(v) ==
    /\ v.type = "TAML_TYPE_OBJECT"
    /\ \A k \in 1..Len(v.pairs) : IsScalar(v.pairs[k].value)

\* C1, in the case of a root Object of scalar values: parsing (default
\* options) the text taml_stringify wrote gives a tree structurally equal
\* to the one serialized: same variant, same scalars, same order of the
\* pairs as they were written.
C1_RoundTrip ==
    (pc = "parsed" /\ opts.type_conversion /\ FlatObject(src) /\ src.count >= 1) =>
        doc.root = src

\* C2, in the case the claim names (an Object of two or more keys, here
\* with scalar values): serializing the re-parsed document gives the text
\* of the first serialization.
C2_Idempotent ==
    (pc = "restringified" /\ FlatObject(src) /\ src.count >= 2) =>
        out2 = out

\* C6: taml_stringify_value writes Null as "~" and the empty String as the
\* two characters quote-quote; and parsing, with either value of the
\* type-conversion flag, a text of key/value lines (the serialization of an
\* Object of scalars) in which key k has the value text "~" (quote-quote)
\* gives Null (the empty String) under k.
C6_Sentinels ==
    /\ (pc = "stringified_value" /\ src = taml_create_null) => out = Str(<<"~">>)
    /\ (pc = "stringified_value" /\ src = taml_create_string(<<>>)) =>
           out = Str(<<"\"", "\"">>)
    /\ (pc = "parsed" /\ FlatObject(src)) =>
           \A k \in 1..Len(src.pairs) :
               LET p == src.pairs[k]
               IN  /\ p.value = taml_create_null =>
                         taml_object_get(doc.root, p.key) = taml_create_null
                   /\ p.value = taml_create_string(<<>>) =>
                         taml_object_get(doc.root, p.key) = taml_create_string(<<>>)

\* with type conversion off, the lines a<TAB>~ and b<TAB>"" have been
\* written and parsed back to Null and the empty String
C6_Witness ==
    /\ pc = "parsed"
    /\ ~opts.type_conversion
    /\ out = Str(<<"b", TAB, "\"", "\"", NL, "a", TAB, "~", NL>>)
    /\ taml_object_get(doc.root, <<"a">>) = taml_create_null
    /\ taml_object_get(doc.root, <<"b">>) = taml_create_string(<<>>)

-----------------------------------------------------------------------------
(* The grammar's vocabulary, stated on the characters of a text *)

\* the lines of a text: the runs of characters between newlines, the empty
\* ones included; cur is the run being read (characters after the last
\* newline form a line only when there are any)
RECURSIVE SourceLinesFrom(_, _, _)
SourceLinesFrom(str, k, cur) ==
    IF k > Len(str) THEN (IF cur = <<>> THEN <<>> ELSE <<cur>>)
    ELSE IF str[k] = NL THEN <<cur>> \o SourceLinesFrom(str, k + 1, <<>>)
    ELSE SourceLinesFrom(str, k + 1, Append(cur, str[k]))

SourceLines(str) == SourceLinesFrom(str, 1, <<>>)

\* the number of leading tabs of a line
Depth(line) ==
    CHOOSE d \in 0..Len(line) :
        /\ \A k \in 1..d : line[k] = TAB
        /\ d = Len(line) \/ line[d + 1] # TAB

\* the line after its leading tabs
Content(line) == SubSeq(line, Depth(line) + 1, Len(line))

\* blank, tab-only or comment
Skippable(line) == Content(line) = <<>> \/ Content(line)[1] = "#"

HasTab(s) == \E k \in 1..Len(s) : s[k] = TAB

\* s without its trailing white space
Trimmed(s) ==
    LET Ends == {n \in 0..Len(s) : \A k \in (n + 1)..Len(s) : isspace(s[k])}
    IN  SubSeq(s, 1, CHOOSE n \in Ends : \A m \in Ends : n <= m)

FirstTab(s) == CHOOSE k \in 1..Len(s) : s[k] = TAB /\ \A m \in 1..(k - 1) : s[m] # TAB

\* of a content with a tab: the text before the first tab, trimmed
KeyOf(c) == Trimmed(SubSeq(c, 1, FirstTab(c) - 1))

\* of a content with a tab: the text after the run of tabs that starts at
\* the first tab, trimmed
ValueTextOf(c) == Trimmed(Content(SubSeq(c, FirstTab(c) + 1, Len(c))))

\* the key a line gives: the key of a key/value line, the trimmed content
\* of a bare line
KeyOfLine(line) ==
    IF HasTab(Content(line)) THEN KeyOf(Content(line)) ELSE Trimmed(Content(line))

\* the lines of a text that are not skippable, in order
KeptOf(str) == SelectSeq(SourceLines(str), LAMBDA l : ~Skippable(l))

\* the kept line that owns kept line i: the nearest earlier line of smaller
\* depth, 0 when there is none
ParentLine(K, i) ==
    LET S == {p \in 1..(i - 1) : Depth(K[p]) < Depth(K[i])}
    IN  IF S = {} THEN 0 ELSE CHOOSE p \in S : \A q \in S : q <= p

\* line i hangs from the root through bare lines, one depth apart
RECURSIVE Anchored(_, _)
Anchored(K, i) ==
    IF Depth(K[i]) = 0 THEN TRUE
    ELSE LET p == ParentLine(K, i)
         IN  /\ p # 0
             /\ Depth(K[p]) = Depth(K[i]) - 1
             /\ ~HasTab(Content(K[p]))
             /\ Anchored(K, p)

\* no other kept line of the text has the depth and the key of line i, and
\* the same holds of the lines that own it
RECURSIVE UniquePath(_, _)
UniquePath(K, i) ==
    /\ \A r \in 1..Len(K) :
           (r # i /\ Depth(K[r]) = Depth(K[i])) => KeyOfLine(K[r]) # KeyOfLine(K[i])
    /\ Depth(K[i]) > 0 => UniquePath(K, ParentLine(K, i))

\* the keys from the root down to line i
RECURSIVE PathOf(_, _)
PathOf(K, i) ==
    IF Depth(K[i]) = 0 THEN <<KeyOfLine(K[i])>>
    ELSE Append(PathOf(K, ParentLine(K, i)), KeyOfLine(K[i]))

\* the value found from v by following the keys of path
RECURSIVE ValueAt(_, _)
ValueAt(v, path) ==
    IF path = <<>> THEN v
    ELSE ValueAt(taml_object_get(v, Head(path)), Tail(path))

\* the kept lines after line i up to, but excluding, the next line at the
\* depth of line i or less
Children(K, i) ==
    LET Stops == {j \in (i + 1)..Len(K) : Depth(K[j]) <= Depth(K[i])} \cup {Len(K) + 1}
    IN  SubSeq(K, i + 1, (CHOOSE j \in Stops : \A m \in Stops : j <= m) - 1)

\* lines without their first n characters
Dedent(lines, n) == [k \in 1..Len(lines) |-> SubSeq(lines[k], n + 1, Len(lines[k]))]

\* kept line i is a bare line followed by a line one depth further in, and
\* it can be found in the tree by its keys
BareParent(K, i) ==
    /\ i < Len(K)
    /\ ~HasTab(Content(K[i]))
    /\ Depth(K[i + 1]) = Depth(K[i]) + 1
    /\ Anchored(K, i)
    /\ UniquePath(K, i)

-----------------------------------------------------------------------------
(* Claims about taml_parse and taml_validate on a text, under SpecText *)

\* C3, as stated: for every text, taml_validate returns TAML_OK exactly
\* when taml_parse with strict = true returns a document with an empty
\* diagnostic (no error message and error_line 0).
C3_Agreement ==
    (doc # NoDoc /\ opts.strict /\ verr # NoVerr) =>
        (verr.result = "TAML_OK"
            <=> (doc.error_message = MsgNone /\ doc.error_line = 0))

\* every line of L is key<TAB>value at depth 0, with non-empty keys that
\* differ from line to line
FlatLines(L) ==
    /\ L # <<>>
    /\ \A n \in 1..Len(L) :
           /\ ~Skippable(L[n])
           /\ Depth(L[n]) = 0
           /\ HasTab(L[n])
           /\ KeyOf(L[n]) # <<>>
    /\ \A n, m \in 1..Len(L) : m # n => KeyOf(L[m]) # KeyOf(L[n])

\* C7: for a text made only of depth-0 lines key<TAB>value with non-empty
\* pairwise distinct keys, taml_parse with the default options returns a
\* root Object with exactly one entry per line, the key of each line mapped
\* to the scalar coercion of its value text, and no diagnostic.
C7_FlatObject ==
    LET L == SourceLines(text)
    IN  (doc # NoDoc /\ opts = DefaultOptions /\ FlatLines(L)) =>
            /\ doc.root.type = "TAML_TYPE_OBJECT"
            /\ doc.root.count = Len(L)
            /\ Len(doc.root.pairs) = Len(L)
            /\ \A n \in 1..Len(L) :
                   taml_object_get(doc.root, KeyOf(L[n]))
                       = convert_value(ValueTextOf(L[n]), TRUE)
            /\ doc.error_message = MsgNone
            /\ doc.error_line = 0

\* the two lines "a <TAB><TAB>x " and "b<TAB>7" have been parsed with the
\* default options into a -> String "x", b -> Int 7
C7_Witness ==
    /\ doc # NoDoc
    /\ opts = DefaultOptions
    /\ text = <<"a", SP, TAB, TAB, "x", SP, NL, "b", TAB, "7", NL>>
    /\ doc.root.count = 2
    /\ taml_object_get(doc.root, <<"a">>) = taml_create_string(<<"x">>)
    /\ taml_object_get(doc.root, <<"b">>) = taml_create_int(7)

\* C8: a bare key line at depth d followed by a line at depth d + 1 maps its
\* key to the value built from exactly the kept lines after it up to, but
\* excluding, the next line at depth <= d: the value is the one those lines
\* parse to on their own, d + 1 tabs removed; and a key/value line at depth
\* d + 1 among them (the last one of its key) makes the value an Object that
\* holds that key with the coercion of its value text.
C8_NestedObject ==
    LET K == KeptOf(text)
    IN  doc # NoDoc =>
            \A i \in 1..Len(K) :
                BareParent(K, i) =>
                    LET v == ValueAt(doc.root, PathOf(K, i))
                        d == Depth(K[i])
                        kids == Children(K, i)
                    IN  /\ v = taml_parse(TextOf(Dedent(kids, d + 1)), opts).root
                        /\ \A k \in 1..Len(kids) :
                               ( /\ Depth(kids[k]) = d + 1
                                 /\ HasTab(Content(kids[k]))
                                 /\ \A m \in (k + 1)..Len(kids) :
                                        Depth(kids[m]) = d + 1 =>
                                            KeyOfLine(kids[m]) # KeyOfLine(kids[k]) )
                               => /\ v.type = "TAML_TYPE_OBJECT"
                                  /\ taml_object_get(v, KeyOfLine(kids[k]))
                                       = convert_value(ValueTextOf(Content(kids[k])),
                                                       opts.type_conversion)

\* the bare key a, followed by the lines b<TAB>x and c<TAB>~ one depth in,
\* has been parsed to a -> Object {b -> String "x", c -> Null}
C8_Witness ==
    /\ doc # NoDoc
    /\ text = <<"a", NL, TAB, "b", TAB, "x", NL, TAB, "c", TAB, "~", NL>>
    /\ BareParent(KeptOf(text), 1)
    /\ doc.root.type = "TAML_TYPE_OBJECT"
    /\ taml_object_get(doc.root, <<"a">>).type = "TAML_TYPE_OBJECT"
    /\ taml_object_get(doc.root, <<"a">>).count = 2
    /\ ValueAt(doc.root, <<<<"a">>, <<"b">>>>) = taml_create_string(<<"x">>)
    /\ ValueAt(doc.root, <<<<"a">>, <<"c">>>>) = taml_create_null

\* C9: a parent key followed by n >= 1 lines at the next depth, none with a
\* tab and none with children of its own, parses to an Array of exactly n
\* elements under that key, the i-th being the scalar coercion of the i-th
\* line's trimmed content, in source order.
C9_ArrayOfLeaves ==
    LET K == KeptOf(text)
    IN  doc # NoDoc =>
            \A i \in 1..Len(K) :
                LET kids == Children(K, i)
                IN  ( /\ BareParent(K, i)
                      /\ \A k \in 1..Len(kids) :
                             /\ Depth(kids[k]) = Depth(K[i]) + 1
                             /\ ~HasTab(Content(kids[k])) )
                    => LET v == ValueAt(doc.root, PathOf(K, i))
                       IN  /\ v.type = "TAML_TYPE_ARRAY"
                           /\ taml_array_size(v) = Len(kids)
                           /\ Len(v.items) = Len(kids)
                           /\ \A k \in 1..Len(kids) :
                                  taml_array_get(v, k - 1)
                                      = convert_value(Trimmed(Content(kids[k])),
                                                      opts.type_conversion)

\* the bare key a, followed by the leaves b and 7 one depth in, has been
\* parsed with type conversion to a -> Array [String "b", Int 7]
C9_Witness ==
    /\ doc # NoDoc
    /\ opts.type_conversion
    /\ text = <<"a", NL, TAB, "b", NL, TAB, "7", NL>>
    /\ BareParent(KeptOf(text), 1)
    /\ taml_object_get(doc.root, <<"a">>).type = "TAML_TYPE_ARRAY"
    /\ taml_object_get(doc.root, <<"a">>).items
           = <<taml_create_string(<<"b">>), taml_create_int(7)>>

\* C10, as stated, the line reported being the line's 1-based position in
\* the source text: if the first violating line of a text (the validator
\* accepts the text cut before it) is a line whose first character is a
\* space, taml_validate returns TAML_ERROR_INVALID_INDENTATION and reports
\* that line; and a text whose lines are all key<TAB>value at depth 0 (no
\* leading space, no further tab in the value) validates as TAML_OK.
C10_LeadingSpace ==
    LET L == SourceLines(text)
    IN  verr # NoVerr =>
            /\ \A n \in 1..Len(L) :
                   ( /\ L[n] # <<>>
                     /\ L[n][1] = SP
                     /\ taml_validate(TextOf(SubSeq(L, 1, n - 1))).result = "TAML_OK" )
                   => /\ verr.result = "TAML_ERROR_INVALID_INDENTATION"
                      /\ verr.error_line = n
            /\ ( /\ L # <<>>
                 /\ \A n \in 1..Len(L) :
                        /\ ~Skippable(L[n])
                        /\ Depth(L[n]) = 0
                        /\ L[n][1] # SP
                        /\ HasTab(L[n])
                        /\ ~HasTab(ValueTextOf(L[n])) )
               => verr.result = "TAML_OK"

\* the position in the source text of the first line at which the validator
\* stops: the first n such that the text cut after its n-th line is rejected
\* (0 when no cut is rejected)
FirstRejected(L) ==
    LET Bad == {n \in 1..Len(L) :
                   taml_validate(TextOf(SubSeq(L, 1, n))).result # "TAML_OK"}
    IN  IF Bad = {} THEN 0 ELSE CHOOSE n \in Bad : \A m \in Bad : n <= m

\* C11, as stated: when taml_validate reports a violation, error_line and
\* the number in the message are the 1-based position of the violating line
\* in the source text, every preceding blank line and comment line counted.
C11_ValidatorLine ==
    (verr # NoVerr /\ verr.result # "TAML_OK") =>
        /\ verr.error_line = FirstRejected(SourceLines(text))
        /\ verr.error_msg.args[1] = FirstRejected(SourceLines(text))

\* the depth of the nearest kept line before line n of L, -1 when there is
\* none
PrevKeptDepth(L, n) ==
    LET Before == {m \in 1..(n - 1) : ~Skippable(L[m])}
    IN  IF Before = {} THEN -1
        ELSE Depth(L[CHOOSE m \in Before : \A q \in Before : q <= m])

\* the positions of the kept lines that are more than one depth further in
\* than the kept line before them
JumpLines(L) ==
    {n \in 1..Len(L) : ~Skippable(L[n]) /\ Depth(L[n]) > PrevKeptDepth(L, n) + 1}

\* C12, as stated: when strict-mode taml_parse records a diagnostic, it
\* describes the first violation in source order (the first line indented
\* more than one level past the kept line before it), and error_line is
\* that line's 1-based position in the source text, skipped blank and
\* comment lines counted.
C12_StrictDiagnostic ==
    (doc # NoDoc /\ opts.strict /\ doc.error_message # MsgNone) =>
        LET J == JumpLines(SourceLines(text))
        IN  /\ J # {}
            /\ \A n \in J : doc.error_line <= n
            /\ doc.error_line \in J
            /\ doc.error_message = MsgIndent(doc.error_line)

\* C13: for every text, taml_parse with strict = false (the default options
\* included) returns a document whose diagnostic is empty: no error message
\* and error_line 0, whatever violations the text contains.
C13_PermissiveNeverFails ==
    (doc # NoDoc /\ ~opts.strict) =>
        /\ doc.error_message = MsgNone
        /\ doc.error_line = 0

\* a text whose first kept line is one level in has been parsed with
\* strict = false; the document has no diagnostic, while the strict parse
\* of the same text has one
C13_Witness ==
    /\ doc # NoDoc
    /\ ~opts.strict
    /\ text = <<TAB, "b", NL>>
    /\ JumpLines(SourceLines(text)) = {1}
    /\ doc.error_line = 0
    /\ doc.error_message = MsgNone
    /\ taml_parse(text, [opts EXCEPT !.strict = TRUE]).error_line = 1

\* C14, as stated: every document taml_parse returns owns a root, and the
\* root is an Object or an Array, also for the empty text and for a text
\* made only of blank and comment lines.
C14_RootIsContainer ==
    doc # NoDoc =>
        /\ doc.root # NULLPTR
        /\ doc.root.type \in {"TAML_TYPE_OBJECT", "TAML_TYPE_ARRAY"}

-----------------------------------------------------------------------------
(* Claims about the value API, under SpecTree *)

\* the keys of the pair list of an Object, from the head on
KeySeq(obj) == [k \in 1..Len(obj.pairs) |-> obj.pairs[k].key]

\* no two pairs of the Object share a key, and count is the number of its
\* distinct keys
IsMap(obj) ==
    /\ \A i, j \in 1..Len(obj.pairs) : i # j => obj.pairs[i].key # obj.pairs[j].key
    /\ obj.count = Cardinality({obj.pairs[k].key : k \in 1..Len(obj.pairs)})

\* C15: after any sequence of taml_object_set calls on an Object, no two
\* pairs share a key and count is the number of distinct keys set; a key
\* never set gets NULL; and each call taml_object_set(obj, key, value) makes
\* taml_object_get(obj, key) the value just set, leaves what get returns
\* for every other key unchanged, and adds one to count exactly when the
\* key is new.
C15_ObjectMap ==
    /\ [](\A n \in 1..Len(acc) :
              acc[n].type = "TAML_TYPE_OBJECT" =>
                  /\ IsMap(acc[n])
                  /\ \A key \in Keys :
                         (\A k \in 1..Len(acc[n].pairs) : acc[n].pairs[k].key # key)
                             => taml_object_get(acc[n], key) = NULLPTR)
    /\ [][\A key \in Keys :
              ObjectSet(key) =>
                  /\ taml_object_get(Top', key) = kid
                  /\ \A other \in Keys \ {key} :
                         taml_object_get(Top', other) = taml_object_get(Top, other)
                  /\ Top'.count = Top.count
                        + (IF taml_object_get(Top, key) = NULLPTR THEN 1 ELSE 0)]_vars

\* an Object on which both keys have been set holds exactly the two pairs,
\* each key with its value
C15_Witness ==
    /\ pc = "build"
    /\ Len(acc) = 1
    /\ acc[1].type = "TAML_TYPE_OBJECT"
    /\ acc[1].count = 2
    /\ taml_object_get(acc[1], <<"a">>) = taml_create_int(7)
    /\ taml_object_get(acc[1], <<"b">>) = taml_create_string(<<"x">>)

\* C16: a taml_object_set call with a new key puts the key in front of the
\* pair list, so the list holds the distinct keys in the reverse of the
\* order of their first insertion; a call with an existing key leaves the
\* order of the list as it is; and the serializer walks the list from its
\* head: the lines of a serialized Object of scalars carry the keys in the
\* order of the list.
C16_IterationOrder ==
    /\ [][\A key \in Keys :
              ObjectSet(key) =>
                  KeySeq(Top') =
                      (IF \E k \in 1..Len(Top.pairs) : Top.pairs[k].key = key
                       THEN KeySeq(Top)
                       ELSE <<key>> \o KeySeq(Top))]_vars
    /\ []((pc = "stringified" /\ FlatObject(src)) =>
              LET lines == SourceLines(out.s)
              IN  /\ Len(lines) = Len(src.pairs)
                  /\ \A k \in 1..Len(lines) :
                         KeyOfLine(lines[k]) = src.pairs[k].key)

\* an Object whose pair list is b, a (a was inserted first, b second) has
\* been serialized with the line of b before the line of a
C16_Witness ==
    /\ pc = "stringified"
    /\ FlatObject(src)
    /\ KeySeq(src) = << <<"b">>, <<"a">> >>
    /\ out = Str(<<"b", TAB, "x", NL, "a", TAB, "7", NL>>)

\* indices past the end that the claims about taml_array_get look at
PastEnd(arr) == taml_array_size(arr)..(MaxNodes + 1)

\* C17: an Array under construction has taml_array_size equal to the number
\* of appends made (0 when new), taml_array_get(i) is NULL for every i at or
\* past the size, and each taml_array_append(arr, value) adds one to the
\* size, makes value the element at the old size and leaves the element at
\* every existing index unchanged.
C17_ArraySequence ==
    /\ [](\A n \in 1..Len(acc) :
              acc[n].type = "TAML_TYPE_ARRAY" =>
                  /\ taml_array_size(acc[n]) = Len(acc[n].items)
                  /\ \A i \in 0..(taml_array_size(acc[n]) - 1) :
                         taml_array_get(acc[n], i) # NULLPTR
                  /\ \A i \in PastEnd(acc[n]) : taml_array_get(acc[n], i) = NULLPTR)
    /\ [][ArrayAppend =>
              /\ taml_array_size(Top') = taml_array_size(Top) + 1
              /\ taml_array_get(Top', taml_array_size(Top)) = kid
              /\ \A i \in 0..(taml_array_size(Top) - 1) :
                     taml_array_get(Top', i) = taml_array_get(Top, i)]_vars
    /\ [][CreateArray => taml_array_size(Top') = 0]_vars

\* an Array to which Int 7, then String "x", then Null were appended holds
\* them at the indices 0, 1 and 2
C17_Witness ==
    /\ pc = "build"
    /\ Len(acc) = 1
    /\ acc[1].type = "TAML_TYPE_ARRAY"
    /\ taml_array_size(acc[1]) = 3
    /\ taml_array_get(acc[1], 0) = taml_create_int(7)
    /\ taml_array_get(acc[1], 1) = taml_create_string(<<"x">>)
    /\ taml_array_get(acc[1], 2) = taml_create_null
    /\ taml_array_get(acc[1], 3) = NULLPTR

-----------------------------------------------------------------------------
(* Claims about the layout the serializer writes, under SpecTree *)

\* d tab characters
Tabs(d) == [k \in 1..d |-> TAB]

\* the text of an Object at depth d, pair by pair from pair k on: d tabs and
\* the key, then a tab, the scalar text and a newline for a scalar value, or
\* a newline and the value at depth d + 1 for a container (an Array value is
\* taken as the serializer writes it at depth d + 1)
RECURSIVE LayoutPairs(_, _, _)
LayoutPairs(pairs, k, d) ==
    IF k > Len(pairs) THEN <<>>
    ELSE LET value == pairs[k].value
         IN  Tabs(d) \o pairs[k].key \o
             (IF value.type = "TAML_TYPE_OBJECT"
              THEN <<NL>> \o LayoutPairs(value.pairs, 1, d + 1)
              ELSE IF value.type = "TAML_TYPE_ARRAY"
              THEN <<NL>> \o serialize_value(value, d + 1).s
              ELSE <<TAB>> \o ScalarText(value) \o <<NL>>)
             \o LayoutPairs(pairs, k + 1, d)

\* C18: an Object serialized at depth d is, for each pair in the order of
\* the pair list, d tabs and the key, followed by one tab, the scalar text
\* and a newline when the value is a scalar, or by a newline and the value
\* serialized at depth d + 1 when it is an Object or an Array; d for the
\* root is the indent_level of the serializer options.
C18_ObjectLayout ==
    (pc = "stringified" /\ src.type = "TAML_TYPE_OBJECT") =>
        out = Str(LayoutPairs(src.pairs, 1, sopts.indent_level))

\* the Object {a -> Object {b -> "x"}} has been serialized from depth 1 on
C18_Witness ==
    /\ pc = "stringified"
    /\ sopts.indent_level = 1
    /\ src = taml_object_set(taml_create_object, <<"a">>,
                 taml_object_set(taml_create_object, <<"b">>,
                                 taml_create_string(<<"x">>)))
    /\ out = Str(<<TAB, "a", NL, TAB, TAB, "b", TAB, "x", NL>>)

\* the text of a container at depth d as the layout rules give it: an
\* Object as in C18, and an Array item by item from item k on, a container
\* item being that item at depth d + 1 and nothing else, a scalar item d
\* tabs, its scalar text and a newline
RECURSIVE Layout(_, _)
RECURSIVE LayoutObject(_, _, _)
RECURSIVE LayoutArray(_, _, _)
LayoutObject(pairs, k, d) ==
    IF k > Len(pairs) THEN <<>>
    ELSE Tabs(d) \o pairs[k].key \o
         (IF IsContainer(pairs[k].value)
          THEN <<NL>> \o Layout(pairs[k].value, d + 1)
          ELSE <<TAB>> \o ScalarText(pairs[k].value) \o <<NL>>)
         \o LayoutObject(pairs, k + 1, d)

LayoutArray(items, k, d) ==
    IF k > Len(items) THEN <<>>
    ELSE (IF IsContainer(items[k])
          THEN Layout(items[k], d + 1)
          ELSE Tabs(d) \o ScalarText(items[k]) \o <<NL>>)
         \o LayoutArray(items, k + 1, d)

Layout(v, d) ==
    IF v.type = "TAML_TYPE_OBJECT" THEN LayoutObject(v.pairs, 1, d)
    ELSE LayoutArray(v.items, 1, d)

\* C19, as stated: in the text of an Array serialized at depth d, an item
\* that is an Object or an Array contributes exactly its own text at depth
\* d + 1, with no tab added in front of it, and a scalar item contributes d
\* tabs, its scalar text and a newline; so a serialized tree is the text the
\* layout rules give.
C19_ArrayLayout ==
    pc = "stringified" => out = Str(Layout(src, sopts.indent_level))

(***************************************************************************)
(* Skippable lines and the validator                                       *)
(***************************************************************************)

\* C20, as stated: a line that is empty or starts with '#' after any number
\* of leading tabs never produces a violation and leaves the state the
\* validator carries from line to line as it was, so taml_validate returns
\* for a text the verdict it returns for the text with its skippable lines
\* removed.
C20_SkippableInert ==
    verr # NoVerr =>
        verr.result = taml_validate(TextOf(KeptOf(text))).result

-----------------------------------------------------------------------------
(* The validator's rules, line by line *)

\* a space stands in the run of spaces and tabs a line starts with
SpaceInIndent(line) ==
    \E k \in 1..Len(line) :
        /\ line[k] = SP
        /\ \A m \in 1..(k - 1) : line[m] \in {SP, TAB}

\* C21, as stated: a text with a kept line B that is more than one depth
\* further in than the kept line A before it (than -1 for the first kept
\* line) is rejected; and when B is the line at which validation stops and
\* its indentation holds no space, taml_validate returns
\* TAML_ERROR_INCONSISTENT_INDENT and reports B's line number in the text.
C21_DepthMonotonic ==
    LET L == SourceLines(text)
    IN  verr # NoVerr =>
            \A n \in JumpLines(L) :
                /\ verr.result # "TAML_OK"
                /\ (FirstRejected(L) = n /\ ~SpaceInIndent(L[n]))
                       => /\ verr.result = "TAML_ERROR_INCONSISTENT_INDENT"
                          /\ verr.error_line = n

-----------------------------------------------------------------------------
(* Bands: Object or Array *)

\* the rule that makes a band an Object: B holds the lines of the band (all
\* deeper than p); one of its lines at depth p + 1 has a tab in its content,
\* or is followed, before any line at depth p + 1 or less, by a line at
\* depth p + 2
ObjectBand(B, p) ==
    \E i \in 1..Len(B) :
        /\ Depth(B[i]) = p + 1
        /\ \/ HasTab(Content(B[i]))
           \/ \E j \in (i + 1)..Len(B) :
                  /\ Depth(B[j]) = p + 2
                  /\ \A m \in (i + 1)..(j - 1) : Depth(B[m]) > p + 1

BandType(B, p) == IF ObjectBand(B, p) THEN "TAML_TYPE_OBJECT" ELSE "TAML_TYPE_ARRAY"

\* C22: the kept lines of a text with at least one kept line are the band at
\* parent depth -1, and the lines under a bare parent line at depth d are a
\* band at parent depth d; taml_parse builds an Object from a band exactly
\* when one of its lines one depth in has a tab in its content or has a line
\* one depth further in under it, and an Array otherwise.
C22_Disambiguation ==
    LET K == KeptOf(text)
    IN  (doc # NoDoc /\ K # <<>>) =>
            /\ doc.root # NULLPTR
            /\ doc.root.type = BandType(K, -1)
            /\ \A i \in 1..Len(K) :
                   BareParent(K, i) =>
                       LET v == ValueAt(doc.root, PathOf(K, i))
                       IN  /\ v # NULLPTR
                           /\ v.type = BandType(Children(K, i), Depth(K[i]))

\* the text a / <TAB>b / <TAB>7 has been parsed: the root band is an Object
\* by the line under a, the band under a is an Array
C22_Witness ==
    /\ doc # NoDoc
    /\ text = <<"a", NL, TAB, "b", NL, TAB, "7", NL>>
    /\ ObjectBand(KeptOf(text), -1)
    /\ ~ObjectBand(Children(KeptOf(text), 1), 0)
    /\ doc.root.type = "TAML_TYPE_OBJECT"
    /\ taml_object_get(doc.root, <<"a">>).type = "TAML_TYPE_ARRAY"

\* the band kept line i belongs to: the kept lines of the text for a line at
\* depth 0, the lines under its parent line otherwise
SiblingBand(K, i) ==
    IF Depth(K[i]) = 0 THEN K ELSE Children(K, ParentLine(K, i))

\* C23, as stated: a kept line that belongs to a band built as an Object
\* (it hangs from the root through bare lines, and its band is an Object by
\* the rule of C22), whose content has no tab, and that no other line shares
\* its key path with, makes its trimmed content a key of the Object; the
\* key holds the value built from the lines under it.
C23_BareKey ==
    LET K == KeptOf(text)
    IN  doc # NoDoc =>
            \A i \in 1..Len(K) :
                ( /\ ~HasTab(Content(K[i]))
                  /\ Anchored(K, i)
                  /\ ObjectBand(SiblingBand(K, i), Depth(K[i]) - 1)
                  /\ UniquePath(K, i) )
                => LET v == ValueAt(doc.root, PathOf(K, i))
                       kids == Children(K, i)
                   IN  /\ v # NULLPTR
                       /\ kids # <<>> =>
                              v = taml_parse(TextOf(Dedent(kids, Depth(K[i]) + 1)),
                                             opts).root

\* a tab stands in the run of spaces and tabs a line starts with
TabInIndent(line) ==
    \E k \in 1..Len(line) :
        /\ line[k] = TAB
        /\ \A m \in 1..(k - 1) : line[m] \in {SP, TAB}

\* the rules of the validator in their order of priority: the kind of the
\* first rule the kept line breaks when the kept line before it had depth pd
\* and had a value or not (pv), "TAML_OK" when it breaks none
FirstBroken(line, pd, pv) ==
    LET c == Content(line)
    IN  IF line[1] = SP THEN "TAML_ERROR_INVALID_INDENTATION"
        ELSE IF SpaceInIndent(line) /\ TabInIndent(line) THEN "TAML_ERROR_MIXED_INDENT"
        ELSE IF Depth(line) > pd + 1 THEN "TAML_ERROR_INCONSISTENT_INDENT"
        ELSE IF Depth(line) > pd /\ pv THEN "TAML_ERROR_ORPHANED_LINE"
        ELSE IF c = <<>> THEN "TAML_ERROR_EMPTY_KEY"
        ELSE IF HasTab(c) /\ FirstTab(c) = 1 THEN "TAML_ERROR_EMPTY_KEY"
        ELSE IF HasTab(c) /\ HasTab(SubSeq(c, 1, FirstTab(c) - 1))
             THEN "TAML_ERROR_INVALID_TAB_IN_KEY"
        ELSE IF HasTab(c) /\ HasTab(Content(SubSeq(c, FirstTab(c) + 1, Len(c))))
             THEN "TAML_ERROR_INVALID_TAB_IN_VALUE"
        ELSE "TAML_OK"

\* the nearest kept line before line n of L has a value (a tab in its
\* content); FALSE when there is none
PrevKeptHadValue(L, n) ==
    LET Before == {m \in 1..(n - 1) : ~Skippable(L[m])}
    IN  Before # {} /\ HasTab(Content(L[CHOOSE m \in Before : \A q \in Before : q <= m]))

\* what line n of L breaks, the skippable lines breaking nothing
BrokenAt(L, n) ==
    IF Skippable(L[n]) THEN "TAML_OK"
    ELSE FirstBroken(L[n], PrevKeptDepth(L, n), PrevKeptHadValue(L, n))

\* the lowest-numbered line of L that breaks a rule, 0 when there is none
FirstViolating(L) ==
    LET Bad == {n \in 1..Len(L) : BrokenAt(L, n) # "TAML_OK"}
    IN  IF Bad = {} THEN 0 ELSE CHOOSE n \in Bad : \A m \in Bad : n <= m

\* C24, as stated: taml_validate accepts a text none of whose lines breaks a
\* rule; otherwise it stops at the lowest-numbered violating line, reports
\* that line, and of the rules the line breaks it reports the kind that
\* comes first in the order InvalidIndentation, MixedIndent,
\* InconsistentIndent, OrphanedLine, EmptyKey, InvalidTabInKey,
\* InvalidTabInValue.
C24_CheckPriority ==
    LET L == SourceLines(text)
        n == FirstViolating(L)
    IN  verr # NoVerr =>
            IF n = 0 THEN verr.result = "TAML_OK"
            ELSE /\ verr.result = BrokenAt(L, n)
                 /\ verr.error_line = n

\* C25, as stated: taml_validate reports TAML_ERROR_ORPHANED_LINE exactly
\* when the line at which it stops is a kept line (with no space in its
\* indentation, which is checked first) one depth further in than the kept
\* line before it, and that line was a key/value pair; a kept line one depth
\* further in than a bare key is not rejected for its depth; and the pair
\* (previous depth, previous-had-value) the validator ends with is that of
\* the last kept line before the line at which it stops, or of the last
\* kept line of an accepted text.
C25_OrphanedLine ==
    LET L == SourceLines(text)
        n == FirstRejected(L)
        stop == IF n = 0 THEN Len(L) + 1 ELSE n
    IN  verr # NoVerr =>
            /\ verr.result = "TAML_ERROR_ORPHANED_LINE"
                   <=> /\ n # 0
                       /\ ~Skippable(L[n])
                       /\ ~SpaceInIndent(L[n])
                       /\ Depth(L[n]) = PrevKeptDepth(L, n) + 1
                       /\ PrevKeptHadValue(L, n)
            /\ ( /\ n # 0
                 /\ ~Skippable(L[n])
                 /\ PrevKeptDepth(L, n) >= 0
                 /\ Depth(L[n]) = PrevKeptDepth(L, n) + 1
                 /\ ~PrevKeptHadValue(L, n) )
               => verr.result \notin {"TAML_ERROR_ORPHANED_LINE",
                                      "TAML_ERROR_INCONSISTENT_INDENT"}
            /\ verr.prev_indent = PrevKeptDepth(L, stop)
            /\ verr.prev_had_value = PrevKeptHadValue(L, stop)

-----------------------------------------------------------------------------
(* The parser, step by step, under SpecParse *)

\* the loop of parse_lines an activation is in
LoopOf(at) ==
    IF at \in {"scan", "scan_j"} THEN "scan"
    ELSE IF at \in {"array", "array_j", "array_call"} THEN "array"
    ELSE IF at \in {"object", "object_end", "object_call"} THEN "object"
    ELSE at

\* an activation before (f) and after (g) a step within one loop: the line
\* index never moves back, the start of a new iteration of the loop is at a
\* later line, and an iteration of an inner loop moves the inner index on
Forward(f, g) ==
    /\ g.i >= f.i
    /\ g.at \in {"scan", "array", "object"} => g.i > f.i
    /\ (g.at = f.at /\ f.at \in {"scan_j", "array_j"}) => g.j > f.j
    /\ (g.at = f.at /\ f.at = "object_end") => g.child_end > f.child_end

\* every activation that a step changes without leaving its loop has moved
\* forward
StepsForward ==
    \A k \in 1..Len(run.stack) :
        ( /\ k <= Len(run'.stack)
          /\ run'.stack[k] # run.stack[k]
          /\ LoopOf(run'.stack[k].at) = LoopOf(run.stack[k].at) )
        => Forward(run.stack[k], run'.stack[k])

\* a step that makes a recursive call hands it a range inside the caller's
\* range, after the line the caller is at
CallsInside ==
    (run.stack # <<>> /\ Len(run'.stack) = Len(run.stack) + 1) =>
        LET c == run.stack[Len(run.stack)]
            new == run'.stack[Len(run'.stack)]
        IN  /\ c.start <= c.i
            /\ c.i < new.start
            /\ new.start <= new.end
            /\ new.end <= c.end

\* no line index occurs twice among the lines stored in a tree
NoLineTwice ==
    \A a, b \in 1..Len(run.built) : a # b => run.built[a] # run.built[b]

\* C26: in every loop of parse_lines the line index strictly increases; each
\* recursive call receives a range that lies inside the caller's range and
\* after the line being processed; no line is built into the tree more than
\* once; and every taml_parse call returns.
C26_NoBacktracking ==
    /\ [][StepsForward /\ CallsInside]_vars
    /\ [](NoLineTwice)
    /\ <>(pc = "returned")

\* the text a / <TAB>b / <TAB><TAB>c<TAB>x has been parsed with two
\* recursive calls, each line stored once, the innermost first
C26_Witness ==
    /\ pc = "returned"
    /\ text = <<"a", NL, TAB, "b", NL, TAB, TAB, "c", TAB, "x", NL>>
    /\ run.calls = 2
    /\ run.built = <<2, 1, 0>>
    /\ run.stack = <<>>
    /\ ValueAt(doc.root, <<<<"a">>, <<"b">>, <<"c">>>>) = taml_create_string(<<"x">>)

\* every Array in the tree v holds scalars only
RECURSIVE ScalarArrays(_)
ScalarArrays(v) ==
    IF v.type = "TAML_TYPE_OBJECT"
    THEN \A k \in 1..Len(v.pairs) : ScalarArrays(v.pairs[k].value)
    ELSE IF v.type = "TAML_TYPE_ARRAY"
         THEN \A k \in 1..Len(v.items) : IsScalar(v.items[k])
    ELSE TRUE

\* C27: no activation of parse_lines ever waits for the recursive call of
\* the array branch (the branch for an item with children is never taken),
\* and every Array in the tree taml_parse returns holds only Null, Bool,
\* Int, Float and String elements.
C27_ArraysOfScalars ==
    /\ \A k \in 1..Len(run.stack) : run.stack[k].at # "array_call"
    /\ (pc = "returned" /\ doc.root # NULLPTR) => ScalarArrays(doc.root)

\* the text a / <TAB>b / <TAB>b has been parsed: the has-children loop of
\* the array branch ran for both items and found no child, and a holds the
\* Array of the two Strings
C27_Witness ==
    /\ pc = "returned"
    /\ text = <<"a", NL, TAB, "b", NL, TAB, "b", NL>>
    /\ run.built = <<1, 2, 0>>
    /\ taml_object_get(doc.root, <<"a">>).type = "TAML_TYPE_ARRAY"
    /\ taml_object_get(doc.root, <<"a">>).items
           = <<taml_create_string(<<"b">>), taml_create_string(<<"b">>)>>

-----------------------------------------------------------------------------
(* The JSON bridge, under SpecJson *)

\* what a JSON number literal stands for: an Int when it is written without
\* a decimal point, a Float when it is written with one
JsonNumberValue(n) ==
    IF \E k \in 1..Len(n) : n[k] = "."
    THEN LET f == atof(n) IN taml_create_float(f.neg, f.mant, f.scale)
    ELSE taml_create_int(atoll(n))

\* C28, as stated: taml_from_json turns a JSON number written without a
\* decimal point into an Int and one written with a decimal point into a
\* Float, whatever follows the number in the document: alone, as an element
\* of an array of numbers, and as a member of an object before a string.
C28_JsonNumbers ==
    pc = "converted" =>
        /\ \A n \in JsonNumbers :
               text = n => doc # NULLPTR /\ doc.root = JsonNumberValue(n)
        /\ \A ls \in JsonNumberLists :
               text = JsonArrayText(ls) =>
                   /\ doc # NULLPTR
                   /\ doc.root.type = "TAML_TYPE_ARRAY"
                   /\ doc.root.items = [k \in 1..Len(ls) |-> JsonNumberValue(ls[k])]
        /\ \A n \in JsonNumbers, s \in JsonStrings :
               text = JsonObjectText(n, s) =>
                   /\ doc # NULLPTR
                   /\ taml_object_get(doc.root, <<"a">>) = JsonNumberValue(n)
                   /\ taml_object_get(doc.root, <<"b">>) = taml_create_string(s)

-----------------------------------------------------------------------------
(* Strict and permissive parsing, under SpecText *)

\* C29: for every text and each value of the type-conversion flag, the root
\* taml_parse returns with strict = true is the root it returns with
\* strict = false, value for value and in the same order; the flag changes
\* only the diagnostic.
C29_StrictSameTree ==
    doc # NoDoc =>
        doc.root = taml_parse(text, [opts EXCEPT !.strict = ~opts.strict]).root

\* the text a / <TAB><TAB>b has been parsed with strict = true: the second
\* line is reported, and the root is the Array of "a" that the permissive
\* parse builds without a diagnostic
C29_Witness ==
    /\ doc # NoDoc
    /\ opts.strict
    /\ text = <<"a", NL, TAB, TAB, "b", NL>>
    /\ doc.error_line = 2
    /\ doc.root.type = "TAML_TYPE_ARRAY"
    /\ doc.root.items = <<taml_create_string(<<"a">>)>>
    /\ taml_parse(text, [opts EXCEPT !.strict = FALSE]).root = doc.root
    /\ taml_parse(text, [opts EXCEPT !.strict = FALSE]).error_line = 0

\* C30: for no text does taml_validate return TAML_ERROR_PARENT_WITH_VALUE
\* or TAML_ERROR_INVALID_TAB_IN_KEY, and for no text does taml_parse, in
\* strict mode or not, record the diagnostic "Key contains invalid tab
\* character": the key is the content before the first tab and holds none.
C30_UnreachableKinds ==
    /\ verr.result \notin {"TAML_ERROR_PARENT_WITH_VALUE",
                           "TAML_ERROR_INVALID_TAB_IN_KEY"}
    /\ verr.error_msg.fmt # "Line %d: Key contains invalid tab character"
    /\ doc.error_message.fmt # MsgTabInKey(0).fmt

\* the text b<TAB>x<TAB>y has been validated and parsed in strict mode: the
\* second tab is reported as a tab in the value, the parser records nothing
\* and stores the rest of the line under the key b
C30_Witness ==
    /\ text = <<"b", TAB, "x", TAB, "y", NL>>
    /\ verr.result = "TAML_ERROR_INVALID_TAB_IN_VALUE"
    /\ doc # NoDoc
    /\ opts.strict
    /\ doc.error_message = MsgNone
    /\ taml_object_get(doc.root, <<"b">>) = taml_create_string(<<"x", TAB, "y">>)

====
